---------------------------- MODULE Spec2Model ----------------------------
(***************************************************************************)
(* Topology planning engine of the xCCL topology generator: the init      *)
(* pipeline (runInit) that builds a topology system from a hardware       *)
(* description, computes best paths, trims, resolves the channel bounds,  *)
(* finds rings (pattern registry or search), builds the trees and wires   *)
(* the channels.                                                           *)
(*                                                                         *)
(* Bandwidths are carried as integers in units of 0.01 GB/s (20.6 GB/s is *)
(* 2060), so that every bandwidth constant and every speed-array entry of *)
(* the source is an exact integer; sums, differences and comparisons of   *)
(* bandwidths are the exact ones (IEEE rounding of the source's doubles   *)
(* is not modelled).                                                       *)
(***************************************************************************)
EXTENDS Integers, Sequences, FiniteSets, TLC

(***************************************************************************)
(* Enumerations (types.ts)                                                 *)
(***************************************************************************)
NODE_GPU == 0
NODE_PCI == 1
NODE_NVS == 2
NODE_CPU == 3
NODE_NIC == 4
NODE_NET == 5

LINK_LOC == 0
LINK_NVL == 1
LINK_C2C == 3
LINK_PCI == 4
LINK_SYS == 9
LINK_NET == 10

PATH_LOC == 0
PATH_NVL == 1
PATH_NVB == 2
PATH_C2C == 3
PATH_PIX == 4
PATH_PXB == 5
PATH_P2C == 6
PATH_PXN == 7
PATH_PHB == 8
PATH_SYS == 9
PATH_NET == 10
PATH_DIS == 11

CPUArch_X86 == 0
CPUArch_POWER == 1
CPUArch_ARM == 2
CPUVendor_INTEL == 0
CPUVendor_AMD == 1
CPUVendor_ZHAOXIN == 2
IntelCPUModel_BDW == 1
IntelCPUModel_SKL == 2
IntelCPUModel_SRP == 3
IntelCPUModel_ERP == 4

NCCL_TOPO_PATTERN_RING == 0
NCCL_TOPO_PATTERN_BALANCED_TREE == 1

(***************************************************************************)
(* Bandwidth constants (constants/nccl.ts, constants/rccl.ts), x 100       *)
(***************************************************************************)
LOC_BW == 500000
SM60_NVLINK_BW == 1800
SM70_NVLINK_BW == 2000
SM80_NVLINK_BW == 2000
SM90_NVLINK_BW == 2060
SM86_NVLINK_BW == 1200
SM100_NVLINK_BW == 4010
PCI_BW == 1200
AMD_BW == 1600
BDW_QPI_BW == 600
SKL_QPI_BW == 1000
SRP_QPI_BW == 2200
ERP_QPI_BW == 4000
ZPI_BW == 600
YONGFENG_ZPI_BW == 900
P9_BW == 3200
ARM_BW == 600
VEGA_XGMI_WIDTH == 2400
MI200_XGMI_WIDTH == 3600
GFX94X_XGMI_WIDTH == 4800

MAXCHANNELS == 64
SEARCH_GLOBAL_TIMEOUT == 524288
SEARCH_TIMEOUT == 16384
SEARCH_TIMEOUT_TREE == 16384
SEARCH_TIMEOUT_SAMECHANNELS == 256
AUTO == -2

speedArrayIntra == <<4000, 3000, 2000, 1800, 1500, 1200, 1000, 900, 700, 600, 500, 400, 300>>
speedArrayInter ==
    <<4800, 3000, 2800, 2400, 2000, 1800, 1500, 1200, 1000, 900, 700, 600, 500,
      400, 300, 240, 120, 24, 12>>
sm90SpeedArrayIntra == <<6000, 5000, 4000, 3000, 2400, 2000, 1500, 1200, 1100, 600, 300>>
sm90SpeedArrayInter ==
    <<4800, 4500, 4200, 4000, 3000, 2400, 2200, 2000, 1750, 1500, 1200, 600,
      300, 240, 120, 24, 12>>
sm100SpeedArrayIntra == <<9000, 8000, 7000, 6000, 5000, 4500, 4000, 3000, 2400, 2000, 1900, 1800>>
sm100SpeedArrayInter ==
    <<9600, 4800, 4510, 4200, 4000, 3000, 2400, 2200, 2000, 1750, 1500, 1200,
      600, 300, 240, 120, 24, 12>>

(***************************************************************************)
(* Small helpers standing for Math.min, Math.max and array operations of   *)
(* the source.                                                             *)
(***************************************************************************)
Min(a, b) == IF a < b THEN a ELSE b
Max(a, b) == IF a > b THEN a ELSE b

Range(s) == {s[i] : i \in 1..Len(s)}

(***************************************************************************)
(* nvlinkBw, getSpeedArrays (constants/nccl.ts); xgmiWidth and the GPU     *)
(* type table (constants/rccl.ts)                                          *)
(***************************************************************************)
nvlinkBw(cudaCompCap) ==
    IF cudaCompCap >= 100 THEN SM100_NVLINK_BW
    ELSE IF cudaCompCap >= 90 THEN SM90_NVLINK_BW
    ELSE IF cudaCompCap = 86 THEN SM86_NVLINK_BW
    ELSE IF cudaCompCap >= 80 THEN SM80_NVLINK_BW
    ELSE IF cudaCompCap >= 70 THEN SM70_NVLINK_BW
    ELSE IF cudaCompCap >= 60 THEN SM60_NVLINK_BW
    ELSE SM80_NVLINK_BW

getSpeedArrays(ccMin, isInter) ==
    IF isInter
    THEN IF ccMin >= 100 THEN sm100SpeedArrayInter
         ELSE IF ccMin >= 90 THEN sm90SpeedArrayInter
         ELSE speedArrayInter
    ELSE IF ccMin >= 100 THEN sm100SpeedArrayIntra
         ELSE IF ccMin >= 90 THEN sm90SpeedArrayIntra
         ELSE speedArrayIntra

gpuTypeToGcnArch ==
    [MI300X |-> "gfx942", MI300A |-> "gfx942", MI250X |-> "gfx90a", MI250 |-> "gfx90a",
     MI210 |-> "gfx90a", MI100 |-> "gfx908", MI60 |-> "gfx906", MI50 |-> "gfx906"]

xgmiWidth(gcnArch) ==
    IF gcnArch = "gfx942" THEN GFX94X_XGMI_WIDTH
    ELSE IF gcnArch = "gfx90a" THEN MI200_XGMI_WIDTH
    ELSE VEGA_XGMI_WIDTH

isAmdGpu(gpuType) == gpuType \in DOMAIN gpuTypeToGcnArch

\* PCI_BW * (gen / 3) * (width / 16), in units of 0.01 GB/s: 1200 * gen * width / 48.
pcieBandwidth(gen, width) == 25 * gen * width

interSocketBw(arch, vendor, model) ==
    IF arch = CPUArch_POWER THEN P9_BW
    ELSE IF arch = CPUArch_ARM THEN ARM_BW
    ELSE IF vendor = CPUVendor_AMD THEN AMD_BW
    ELSE IF vendor = CPUVendor_ZHAOXIN THEN (IF model = 1 THEN YONGFENG_ZPI_BW ELSE ZPI_BW)
    ELSE IF model = IntelCPUModel_BDW THEN BDW_QPI_BW
    ELSE IF model = IntelCPUModel_SKL THEN SKL_QPI_BW
    ELSE IF model = IntelCPUModel_SRP THEN SRP_QPI_BW
    ELSE IF model = IntelCPUModel_ERP THEN ERP_QPI_BW
    ELSE BDW_QPI_BW

(***************************************************************************)
(* Option map (env.ts): each option has a default and an override value   *)
(* (NullValue when not overridden).                                        *)
(***************************************************************************)
\* null is the empty sequence, a value v the one-element sequence <<v>>.
NullValue == <<>>

getEnvValue(envConfig, name) ==
    IF name \notin DOMAIN envConfig THEN NullValue
    ELSE IF envConfig[name].value # NullValue THEN envConfig[name].value
    ELSE envConfig[name].default

getEnvInt(envConfig, name) ==
    LET val == getEnvValue(envConfig, name) IN IF val = NullValue THEN -2 ELSE val[1]

createDefaultEnvConfig ==
    [NCCL_NVB_DISABLE |-> [default |-> <<0>>, value |-> NullValue],
     NCCL_PXN_DISABLE |-> [default |-> <<0>>, value |-> NullValue],
     NCCL_PXN_C2C |-> [default |-> <<1>>, value |-> NullValue],
     NCCL_MIN_NCHANNELS |-> [default |-> <<AUTO>>, value |-> NullValue],
     NCCL_MAX_NCHANNELS |-> [default |-> <<AUTO>>, value |-> NullValue],
     NCCL_CROSS_NIC |-> [default |-> <<2>>, value |-> NullValue],
     RCCL_MODEL_MATCHING_DISABLE |-> [default |-> <<0>>, value |-> NullValue]]

\* The option map with the given overrides (a record of option name -> value).
withOverrides(overrides) ==
    [name \in DOMAIN createDefaultEnvConfig |->
        IF name \in DOMAIN overrides
        THEN [createDefaultEnvConfig[name] EXCEPT !.value = <<overrides[name]>>]
        ELSE createDefaultEnvConfig[name]]

(***************************************************************************)
(* Topology builder (topo.ts: buildTopoSystem). Node identities are pairs  *)
(* <<kind, index>> standing for the strings `gpu-<i>`, `cpu-<i>`, ...      *)
(***************************************************************************)
gpuId(i) == <<"gpu", i>>
cpuId(i) == <<"cpu", i>>
nicId(i) == <<"nic", i>>
nvsId(i) == <<"nvs", i>>
pciId(i) == <<"pci", i>>

mkLink(fromId, toId, type, bandwidth) ==
    [fromId |-> fromId, toId |-> toId, type |-> type, bandwidth |-> bandwidth]

\* Steps 1-5: node creation, in creation order.
buildNodes(config) ==
    [i \in 1..config.gpu.count |->
        [id |-> gpuId(i - 1), type |-> NODE_GPU, index |-> i - 1,
         gpu |-> [rank |-> i - 1, cudaCompCap |-> config.gpu.cudaCompCap]]]
    \o [i \in 1..config.cpu.count |-> [id |-> cpuId(i - 1), type |-> NODE_CPU, index |-> i - 1]]
    \o [i \in 1..config.nic.count |-> [id |-> nicId(i - 1), type |-> NODE_NIC, index |-> i - 1]]
    \o [i \in 1..config.nvswitch.count |-> [id |-> nvsId(i - 1), type |-> NODE_NVS, index |-> i - 1]]
    \o [i \in 1..(config.pcie.switchesPerCPU * config.cpu.count) |->
           [id |-> pciId(i - 1), type |-> NODE_PCI, index |-> i - 1]]

\* Full mesh over n nodes of one kind: for i, for j # i, one link i -> j.
meshLinks(kind, n, type, bw) ==
    [k \in 1..(n * (n - 1)) |->
        LET i == (k - 1) \div (n - 1)
            r == (k - 1) % (n - 1)
            j == IF r < i THEN r ELSE r + 1
        IN  mkLink(<<kind, i>>, <<kind, j>>, type, bw)]

\* NVSwitch topology: for g, for s, the pair gpu-g -> nvs-s, nvs-s -> gpu-g.
nvswitchLinks(nGpus, nSwitches, bw) ==
    [k \in 1..(2 * nGpus * nSwitches) |->
        LET g == (k - 1) \div (2 * nSwitches)
            s == ((k - 1) % (2 * nSwitches)) \div 2
        IN  IF (k - 1) % 2 = 0
            THEN mkLink(gpuId(g), nvsId(s), LINK_NVL, bw)
            ELSE mkLink(nvsId(s), gpuId(g), LINK_NVL, bw)]

\* Step 6: GPU interconnect links.
gpuInterconnectLinks(config) ==
    IF config.nvswitch.count > 0
    THEN nvswitchLinks(config.gpu.count, config.nvswitch.count,
                       nvlinkBw(config.gpu.cudaCompCap))
    ELSE IF isAmdGpu(config.gpu.type)
    THEN meshLinks("gpu", config.gpu.count, LINK_NVL,
                   xgmiWidth(gpuTypeToGcnArch[config.gpu.type]))
    ELSE IF config.gpu.nvlinksPerPair > 0
    THEN meshLinks("gpu", config.gpu.count, LINK_NVL,
                   nvlinkBw(config.gpu.cudaCompCap) * config.gpu.nvlinksPerPair)
    ELSE <<>>

\* config.numaMapping.slice(0, k).filter(n => n === v).length
countOnCpu(numaMapping, k, v) ==
    Cardinality({i \in 1..Min(k, Len(numaMapping)) : numaMapping[i] = v})

hasLink(links, fromId, toId) ==
    \E i \in 1..Len(links) : links[i].fromId = fromId /\ links[i].toId = toId

\* The links one device (GPU or NIC) adds in steps 7 and 8, given the links so far.
attachLinks(config, links, devId, k, cpuIdx) ==
    LET switchesPerCpu == config.pcie.switchesPerCPU
        totalPciSwitches == switchesPerCpu * config.cpu.count
        pciBw == pcieBandwidth(config.pcie.gen, config.pcie.width)
    IN  IF totalPciSwitches > 0
        THEN LET onCpu == countOnCpu(config.numaMapping, k, cpuIdx)
                 pciIdx == cpuIdx * switchesPerCpu + (onCpu % switchesPerCpu)
                 dev == <<mkLink(devId, pciId(pciIdx), LINK_PCI, pciBw),
                          mkLink(pciId(pciIdx), devId, LINK_PCI, pciBw)>>
             IN  IF hasLink(links, pciId(pciIdx), cpuId(cpuIdx))
                 THEN links \o dev
                 ELSE links \o dev
                      \o <<mkLink(pciId(pciIdx), cpuId(cpuIdx), LINK_PCI, pciBw),
                           mkLink(cpuId(cpuIdx), pciId(pciIdx), LINK_PCI, pciBw)>>
        ELSE links \o <<mkLink(devId, cpuId(cpuIdx), LINK_PCI, pciBw),
                        mkLink(cpuId(cpuIdx), devId, LINK_PCI, pciBw)>>

\* Step 7: GPU <-> PCIe switch <-> CPU links; numaMapping[g] ?? 0.
RECURSIVE gpuPciLinks(_, _, _)
gpuPciLinks(config, links, g) ==
    IF g >= config.gpu.count THEN links
    ELSE LET numaIdx == IF g < Len(config.numaMapping) THEN config.numaMapping[g + 1] ELSE 0
         IN  gpuPciLinks(config, attachLinks(config, links, gpuId(g), g, numaIdx), g + 1)

\* Step 8: NIC <-> PCIe switch <-> CPU links.
RECURSIVE nicPciLinks(_, _, _)
nicPciLinks(config, links, n) ==
    IF n >= config.nic.count THEN links
    ELSE LET cpuIdx == IF n < Len(config.numaMapping) THEN config.numaMapping[n + 1]
                       ELSE n % config.cpu.count
         IN  nicPciLinks(config, attachLinks(config, links, nicId(n), n, cpuIdx), n + 1)

buildLinks(config) ==
    nicPciLinks(config, gpuPciLinks(config, gpuInterconnectLinks(config), 0), 0)
    \o meshLinks("cpu", config.cpu.count, LINK_SYS,
                 interSocketBw(config.cpu.arch, config.cpu.vendor, config.cpu.model))

\* Sum and maximum (0 for none) of f[lo..hi], by halving.
RECURSIVE SumRange(_, _, _)
SumRange(f, lo, hi) ==
    IF lo > hi THEN 0
    ELSE IF lo = hi THEN f[lo]
    ELSE LET mid == (lo + hi) \div 2 IN SumRange(f, lo, mid) + SumRange(f, mid + 1, hi)

RECURSIVE MaxRange(_, _, _)
MaxRange(f, lo, hi) ==
    IF lo > hi THEN 0
    ELSE IF lo = hi THEN Max(0, f[lo])
    ELSE LET mid == (lo + hi) \div 2 IN Max(MaxRange(f, lo, mid), MaxRange(f, mid + 1, hi))

maxLinkBw(links) == MaxRange([i \in 1..Len(links) |-> links[i].bandwidth], 1, Len(links))

totalLinkBw(links) == SumRange([i \in 1..Len(links) |-> links[i].bandwidth], 1, Len(links))

EmptyPaths == <<>>

\* The nodesByType index of a node list: one entry per type that occurs,
\* listing the nodes of the type in creation order.
groupByType(nodes) ==
    [t \in {nodes[i].type : i \in 1..Len(nodes)} |-> SelectSeq(nodes, LAMBDA n : n.type = t)]

buildTopoSystem(config) ==
    LET links == buildLinks(config)
        nodes == buildNodes(config)
    IN  [nodes |-> nodes, links |-> links, paths |-> EmptyPaths,
         maxBw |-> maxLinkBw(links), totalBw |-> totalLinkBw(links), inter |-> FALSE,
         nodesByType |-> groupByType(nodes)]

\* system.nodesByType.get(type) ?? []
nodesOfType(system, type) ==
    IF type \in DOMAIN system.nodesByType THEN system.nodesByType[type] ELSE <<>>

(***************************************************************************)
(* Decision-log entries produced by a phase, in emit order. An entry       *)
(* carries its phase, the action text (with the interpolated values        *)
(* removed), the values interpolated into the action and rationale         *)
(* strings, and the payload values. The alternatives and the source        *)
(* reference are literals of the emit site, fixed by the action text.      *)
(***************************************************************************)
Emit(phase, action, reason, data) ==
    [phase |-> phase, action |-> action, reason |-> reason, data |-> data]

(***************************************************************************)
(* Best paths (paths.ts): buildAdjacency, buildNodeMap, classifyHop,       *)
(* spfaFromSource, applyPxnPaths, computeAllPaths                          *)
(***************************************************************************)
nodeIds(system) == {system.nodes[i].id : i \in 1..Len(system.nodes)}

buildNodeMap(system) ==
    [id \in nodeIds(system) |->
        system.nodes[CHOOSE i \in 1..Len(system.nodes) :
            /\ system.nodes[i].id = id
            /\ \A j \in (i + 1)..Len(system.nodes) : system.nodes[j].id # id]] @@ <<>>

\* The adjacency entries of node id, in the order the links are visited: a
\* link contributes a forward entry to its source's list and a reverse entry
\* to its target's list; links with an endpoint that is no node are skipped.
adjEntries(links, id, nodeMap) ==
    LET cand == [k \in 1..(2 * Len(links)) |->
                    LET link == links[(k + 1) \div 2]
                    IN  IF k % 2 = 1
                        THEN [link |-> link, owner |-> link.fromId, other |-> link.toId]
                        ELSE [link |-> mkLink(link.toId, link.fromId, link.type, link.bandwidth),
                              owner |-> link.toId, other |-> link.fromId]]
        mine == SelectSeq(cand, LAMBDA c : c.owner = id /\ c.other \in DOMAIN nodeMap)
    IN  [k \in 1..Len(mine) |-> [link |-> mine[k].link, neighbor |-> nodeMap[mine[k].other]]]

buildAdjacency(system) ==
    LET nodeMap == buildNodeMap(system)
    IN  [id \in nodeIds(system) |-> adjEntries(system.links, id, nodeMap) \o <<>>] @@ <<>>

linkTypeToPathType(linkType) ==
    IF linkType = LINK_LOC THEN PATH_LOC
    ELSE IF linkType = LINK_NVL THEN PATH_NVL
    ELSE IF linkType = LINK_PCI THEN PATH_PIX
    ELSE IF linkType = LINK_C2C THEN PATH_C2C
    ELSE PATH_SYS

classifyHop(fromNode, toNode, linkType, pathSoFar, hopCount) ==
    LET hopType ==
            IF linkType = LINK_NET THEN PATH_LOC
            ELSE IF fromNode.type = NODE_PCI /\ toNode.type = NODE_PCI THEN PATH_PXB
            ELSE IF linkType = LINK_PCI /\ (fromNode.type = NODE_CPU \/ toNode.type = NODE_CPU)
            THEN PATH_PHB
            ELSE IF /\ fromNode.type = NODE_GPU
                    /\ pathSoFar = PATH_NVL
                    /\ linkType = LINK_NVL
                    /\ hopCount > 1
            THEN PATH_NVB
            ELSE linkTypeToPathType(linkType)
    IN  Max(pathSoFar, hopType)

\* spfaNeighbors with the old hop count compared with the new path's own.
RECURSIVE spfaNeighborsOwnHops(_, _, _, _, _, _)
spfaNeighborsOwnHops(ctx, currentId, currentEntry, neighbors, k, st) ==
    IF k > Len(neighbors) THEN st
    ELSE LET link == neighbors[k].link
             neighbor == neighbors[k].neighbor
             currentNode == ctx.nodeMap[currentId]
             blocked ==
                 /\ currentNode.type = NODE_GPU
                 /\ currentNode.id # ctx.sourceId
                 /\ \/ ctx.nvbDisabled
                    \/ link.type # LINK_NVL
                    \/ neighbor.type # NODE_GPU
                    \/ currentEntry.hopCount > 1
             newBw == Min(currentEntry.bandwidth, link.bandwidth)
             newCount == currentEntry.hopCount + 1
             dominated ==
                 /\ neighbor.id \in DOMAIN st.best
                 /\ LET existing == st.best[neighbor.id]
                    IN  ~ (/\ (existing.bandwidth = 0
                               \/ existing.hopCount > newCount)
                           /\ existing.bandwidth < newBw)
             newEntry ==
                 [nodeId |-> neighbor.id,
                  pathType |-> classifyHop(currentNode, neighbor, link.type,
                                           currentEntry.pathType, newCount),
                  bandwidth |-> newBw,
                  hops |-> Append(currentEntry.hops,
                                  [linkType |-> link.type, bandwidth |-> link.bandwidth,
                                   nodeId |-> neighbor.id]),
                  hopCount |-> newCount]
         IN  IF blocked \/ dominated
             THEN spfaNeighborsOwnHops(ctx, currentId, currentEntry, neighbors, k + 1, st)
             ELSE spfaNeighborsOwnHops(ctx, currentId, currentEntry, neighbors, k + 1,
                      [best |-> (neighbor.id :> newEntry) @@ st.best,
                       nextLayer |-> IF neighbor.id \in Range(st.nextLayer)
                                     THEN st.nextLayer
                                     ELSE Append(st.nextLayer, neighbor.id)])

\* spfaNeighborsFirstFound keeping the entry found first: an entry is never replaced.
RECURSIVE spfaNeighborsFirstFound(_, _, _, _, _, _)
spfaNeighborsFirstFound(ctx, currentId, currentEntry, neighbors, k, st) ==
    IF k > Len(neighbors) THEN st
    ELSE LET link == neighbors[k].link
             neighbor == neighbors[k].neighbor
             currentNode == ctx.nodeMap[currentId]
             blocked ==
                 /\ currentNode.type = NODE_GPU
                 /\ currentNode.id # ctx.sourceId
                 /\ \/ ctx.nvbDisabled
                    \/ link.type # LINK_NVL
                    \/ neighbor.type # NODE_GPU
                    \/ currentEntry.hopCount > 1
             newBw == Min(currentEntry.bandwidth, link.bandwidth)
             newCount == currentEntry.hopCount + 1
             dominated == neighbor.id \in DOMAIN st.best
             newEntry ==
                 [nodeId |-> neighbor.id,
                  pathType |-> classifyHop(currentNode, neighbor, link.type,
                                           currentEntry.pathType, newCount),
                  bandwidth |-> newBw,
                  hops |-> Append(currentEntry.hops,
                                  [linkType |-> link.type, bandwidth |-> link.bandwidth,
                                   nodeId |-> neighbor.id]),
                  hopCount |-> newCount]
         IN  IF blocked \/ dominated
             THEN spfaNeighborsFirstFound(ctx, currentId, currentEntry, neighbors, k + 1, st)
             ELSE spfaNeighborsFirstFound(ctx, currentId, currentEntry, neighbors, k + 1,
                      [best |-> (neighbor.id :> newEntry) @@ st.best,
                       nextLayer |-> IF neighbor.id \in Range(st.nextLayer)
                                     THEN st.nextLayer
                                     ELSE Append(st.nextLayer, neighbor.id)])

\* ctx: [sourceId, adj, nodeMap, nvbDisabled]; st: [best, nextLayer].
RECURSIVE spfaNeighbors(_, _, _, _, _, _)
spfaNeighbors(ctx, currentId, currentEntry, neighbors, k, st) ==
    IF k > Len(neighbors) THEN st
    ELSE LET link == neighbors[k].link
             neighbor == neighbors[k].neighbor
             currentNode == ctx.nodeMap[currentId]
             blocked ==
                 /\ currentNode.type = NODE_GPU
                 /\ currentNode.id # ctx.sourceId
                 /\ \/ ctx.nvbDisabled
                    \/ link.type # LINK_NVL
                    \/ neighbor.type # NODE_GPU
                    \/ currentEntry.hopCount > 1
             newBw == Min(currentEntry.bandwidth, link.bandwidth)
             newCount == currentEntry.hopCount + 1
             dominated ==
                 /\ neighbor.id \in DOMAIN st.best
                 /\ LET existing == st.best[neighbor.id]
                    IN  ~ (/\ (existing.bandwidth = 0
                               \/ existing.hopCount > currentEntry.hopCount)
                           /\ existing.bandwidth < newBw)
             newEntry ==
                 [nodeId |-> neighbor.id,
                  pathType |-> classifyHop(currentNode, neighbor, link.type,
                                           currentEntry.pathType, newCount),
                  bandwidth |-> newBw,
                  hops |-> Append(currentEntry.hops,
                                  [linkType |-> link.type, bandwidth |-> link.bandwidth,
                                   nodeId |-> neighbor.id]),
                  hopCount |-> newCount]
         IN  IF blocked \/ dominated
             THEN spfaNeighbors(ctx, currentId, currentEntry, neighbors, k + 1, st)
             ELSE spfaNeighbors(ctx, currentId, currentEntry, neighbors, k + 1,
                      [best |-> (neighbor.id :> newEntry) @@ st.best,
                       nextLayer |-> IF neighbor.id \in Range(st.nextLayer)
                                     THEN st.nextLayer
                                     ELSE Append(st.nextLayer, neighbor.id)])

RECURSIVE spfaLayer(_, _, _, _)
spfaLayer(ctx, currentLayer, i, st) ==
    IF i > Len(currentLayer) THEN st
    ELSE LET currentId == currentLayer[i]
         IN  spfaLayer(ctx, currentLayer, i + 1,
                 IF currentId \in DOMAIN ctx.adj
                 THEN spfaNeighbors(ctx, currentId, st.best[currentId], ctx.adj[currentId], 1, st)
                 ELSE st)

RECURSIVE spfaLoop(_, _, _)
spfaLoop(ctx, currentLayer, best) ==
    IF currentLayer = <<>> THEN best
    ELSE LET st == spfaLayer(ctx, currentLayer, 1, [best |-> best, nextLayer |-> <<>>])
         IN  spfaLoop(ctx, st.nextLayer, st.best)

\* spfaFromSource with the nvb-disable option ignored.
spfaFromSourceBouncing(sourceId, adj, nodeMap, nvbDisabled) ==
    spfaLoop([sourceId |-> sourceId, adj |-> adj, nodeMap |-> nodeMap,
              nvbDisabled |-> FALSE],
             <<sourceId>>,
             sourceId :> [nodeId |-> sourceId, pathType |-> PATH_LOC, bandwidth |-> LOC_BW,
                          hops |-> <<>>, hopCount |-> 0])

spfaFromSource(sourceId, adj, nodeMap, nvbDisabled) ==
    spfaLoop([sourceId |-> sourceId, adj |-> adj, nodeMap |-> nodeMap,
              nvbDisabled |-> nvbDisabled],
             <<sourceId>>,
             sourceId :> [nodeId |-> sourceId, pathType |-> PATH_LOC, bandwidth |-> LOC_BW,
                          hops |-> <<>>, hopCount |-> 0])

pathKey(fromId, toId) == <<fromId, toId>>

hasPath(paths, fromId, toId) == pathKey(fromId, toId) \in DOMAIN paths

mkPath(fromId, toId, type, bandwidth, hops, count) ==
    [fromId |-> fromId, toId |-> toId, type |-> type, bandwidth |-> bandwidth,
     hops |-> hops, count |-> count]

\* ncclTopoGetLocalGpu as in applyPxnPaths: scan of the GPUs for NIC nicId;
\* loc is [gpu, type, bw], gpu being <<>> while none is chosen.
RECURSIVE pxnLocalGpu(_, _, _, _, _)
pxnLocalGpu(paths, gpuNodes, nicId_, i, loc) ==
    IF i > Len(gpuNodes) THEN loc
    ELSE LET gpu == gpuNodes[i]
         IN  IF ~ hasPath(paths, gpu.id, nicId_)
             THEN pxnLocalGpu(paths, gpuNodes, nicId_, i + 1, loc)
             ELSE LET path == paths[pathKey(gpu.id, nicId_)]
                  IN  IF \/ path.type < loc.type
                         \/ (path.type = loc.type /\ path.bandwidth > loc.bw)
                      THEN pxnLocalGpu(paths, gpuNodes, nicId_, i + 1,
                               [gpu |-> <<gpu.id>>, type |-> path.type, bw |-> path.bandwidth])
                      ELSE pxnLocalGpu(paths, gpuNodes, nicId_, i + 1, loc)

\* pxnApplies without the comparison of the two paths to the NIC.
pxnAppliesAnyBandwidth(paths, gpuId_, nicId_, localGpuId, pxnType) ==
    /\ gpuId_ # localGpuId
    /\ hasPath(paths, gpuId_, nicId_)
    /\ hasPath(paths, localGpuId, nicId_)
    /\ paths[pathKey(localGpuId, nicId_)].type <= pxnType
    /\ hasPath(paths, localGpuId, gpuId_)
    /\ paths[pathKey(localGpuId, gpuId_)].type <= PATH_NVL

\* Whether GPU gpuId_ gets a proxy path to NIC nicId_ through localGpuId.
pxnApplies(paths, gpuId_, nicId_, localGpuId, pxnType) ==
    /\ gpuId_ # localGpuId
    /\ hasPath(paths, gpuId_, nicId_)
    /\ hasPath(paths, localGpuId, nicId_)
    /\ paths[pathKey(localGpuId, nicId_)].type <= pxnType
    /\ hasPath(paths, localGpuId, gpuId_)
    /\ paths[pathKey(localGpuId, gpuId_)].type <= PATH_NVL
    /\ \/ paths[pathKey(localGpuId, nicId_)].bandwidth > paths[pathKey(gpuId_, nicId_)].bandwidth
       \/ paths[pathKey(gpuId_, nicId_)].type > PATH_PXN

pxnPath(paths, gpuId_, nicId_, localGpuId) ==
    LET peerToNicPath == paths[pathKey(localGpuId, nicId_)]
        peerToGpuPath == paths[pathKey(localGpuId, gpuId_)]
        hasGpuToPeer == hasPath(paths, gpuId_, localGpuId)
        nvlinkHops == IF hasGpuToPeer THEN paths[pathKey(gpuId_, localGpuId)].hops
                      ELSE <<[linkType |-> LINK_NVL, bandwidth |-> peerToGpuPath.bandwidth,
                              nodeId |-> localGpuId]>>
        nvlinkHopCount == IF hasGpuToPeer THEN paths[pathKey(gpuId_, localGpuId)].count ELSE 1
    IN  mkPath(gpuId_, nicId_, PATH_PXN,
               Min(peerToGpuPath.bandwidth, peerToNicPath.bandwidth),
               nvlinkHops \o peerToNicPath.hops,
               nvlinkHopCount + peerToNicPath.count)

\* st: [paths, pxnCount]
RECURSIVE pxnGpuLoop(_, _, _, _, _, _)
pxnGpuLoop(st, gpuNodes, nicId_, localGpuId, pxnType, i) ==
    IF i > Len(gpuNodes) THEN st
    ELSE LET g == gpuNodes[i].id
         IN  IF pxnApplies(st.paths, g, nicId_, localGpuId, pxnType)
             THEN pxnGpuLoop([paths |-> (pathKey(g, nicId_) :> pxnPath(st.paths, g, nicId_, localGpuId))
                                        @@ st.paths,
                              pxnCount |-> st.pxnCount + 1],
                             gpuNodes, nicId_, localGpuId, pxnType, i + 1)
             ELSE pxnGpuLoop(st, gpuNodes, nicId_, localGpuId, pxnType, i + 1)

RECURSIVE pxnNicLoop(_, _, _, _, _)
pxnNicLoop(st, gpuNodes, nicNodes, pxnType, n) ==
    IF n > Len(nicNodes) THEN st
    ELSE LET loc == pxnLocalGpu(st.paths, gpuNodes, nicNodes[n].id, 1,
                                [gpu |-> <<>>, type |-> PATH_DIS, bw |-> 0])
         IN  IF loc.gpu = <<>>
             THEN pxnNicLoop(st, gpuNodes, nicNodes, pxnType, n + 1)
             ELSE pxnNicLoop(pxnGpuLoop(st, gpuNodes, nicNodes[n].id, loc.gpu[1], pxnType, 1),
                             gpuNodes, nicNodes, pxnType, n + 1)

\* Returns [paths, emits].
applyPxnPaths(paths, gpuNodes, nicNodes, env) ==
    IF getEnvInt(env, "NCCL_PXN_DISABLE") # 0
    THEN [paths |-> paths,
          emits |-> <<Emit("computePaths", "PXN optimization disabled", <<>>, <<>>)>>]
    ELSE IF Len(gpuNodes) = 0 \/ Len(nicNodes) = 0
    THEN [paths |-> paths, emits |-> <<>>]
    ELSE LET pxnType == IF getEnvInt(env, "NCCL_PXN_C2C") # 0 THEN PATH_P2C ELSE PATH_PXB
             st == pxnNicLoop([paths |-> paths, pxnCount |-> 0], gpuNodes, nicNodes, pxnType, 1)
         IN  [paths |-> st.paths,
              emits |-> IF st.pxnCount > 0
                        THEN <<Emit("computePaths", "PXN optimization: upgraded GPU->NIC paths",
                                    <<st.pxnCount>>, <<st.pxnCount>>)>>
                        ELSE <<>>]

\* The (source, destination) pairs computeAllPaths visits, in loop order:
\* every GPU to every GPU and NIC, then every NIC to every GPU.
pathPairs(gpuNodes, nicNodes) ==
    LET dests == gpuNodes \o nicNodes
        g == Len(gpuNodes)
        d == Len(dests)
    IN  [k \in 1..(g * d) |-> <<gpuNodes[((k - 1) \div d) + 1].id, dests[((k - 1) % d) + 1].id>>]
        \o [k \in 1..(Len(nicNodes) * g) |->
               <<nicNodes[((k - 1) \div g) + 1].id, gpuNodes[((k - 1) % g) + 1].id>>]

\* storedPath with the hop count of a found path one too high.
storedPathMiscounted(results, sourceId, destId) ==
    IF destId = sourceId THEN mkPath(sourceId, destId, PATH_LOC, LOC_BW, <<>>, 0)
    ELSE IF destId \notin DOMAIN results THEN mkPath(sourceId, destId, PATH_DIS, 0, <<>>, 0)
    ELSE mkPath(sourceId, destId, results[destId].pathType, results[destId].bandwidth,
                results[destId].hops, results[destId].hopCount + 1)

\* The path stored for one pair, given the SPFA results of its source.
storedPath(results, sourceId, destId) ==
    IF destId = sourceId THEN mkPath(sourceId, destId, PATH_LOC, LOC_BW, <<>>, 0)
    ELSE IF destId \notin DOMAIN results THEN mkPath(sourceId, destId, PATH_DIS, 0, <<>>, 0)
    ELSE mkPath(sourceId, destId, results[destId].pathType, results[destId].bandwidth,
                results[destId].hops, results[destId].hopCount)

\* The closing summary of computeAllPaths: one entry per ordered GPU pair with a path.
pathSummary(paths, gpuNodes) ==
    LET n == Len(gpuNodes)
        pairs == [k \in 1..(n * n) |-> <<gpuNodes[((k - 1) \div n) + 1].id,
                                         gpuNodes[((k - 1) % n) + 1].id>>]
        found == SelectSeq(pairs, LAMBDA pr : pr[1] # pr[2] /\ hasPath(paths, pr[1], pr[2]))
    IN  [k \in 1..Len(found) |->
            LET p == paths[pathKey(found[k][1], found[k][2])]
            IN  Emit("computePaths", "Path", <<p.fromId, p.toId, p.type, p.bandwidth, p.count>>,
                     <<p.fromId, p.toId, p.type, p.bandwidth, p.count>>)]

\* The results of spfaFromSource for every source, GPUs first, then NICs.
spfaResults(sourceNodes, adj, nodeMap, nvbDisabled) ==
    [id \in Range([k \in 1..Len(sourceNodes) |-> sourceNodes[k].id]) |->
        spfaFromSource(id, adj, nodeMap, nvbDisabled)] @@ <<>>

\* The paths Step 4 of computeAllPaths stores, before the PXN pass.
spfaStoredPaths(results, gpuNodes, nicNodes) ==
    [key \in Range(pathPairs(gpuNodes, nicNodes)) |->
        storedPath(results[key[1]], key[1], key[2])] @@ <<>>

\* Returns [system, emits].
computeAllPaths(system, env) ==
    LET nvbDisabled == getEnvInt(env, "NCCL_NVB_DISABLE") # 0
        gpuNodes == nodesOfType(system, NODE_GPU)
        nicNodes == nodesOfType(system, NODE_NIC)
        sourceNodes == gpuNodes \o nicNodes
        adj == buildAdjacency(system)
        nodeMap == buildNodeMap(system)
        results == spfaResults(sourceNodes, adj, nodeMap, nvbDisabled)
        pairs == pathPairs(gpuNodes, nicNodes)
        spfaPaths == spfaStoredPaths(results, gpuNodes, nicNodes)
        found == SelectSeq(pairs, LAMBDA pr : pr[1] # pr[2] /\ pr[2] \in DOMAIN results[pr[1]])
        missing == SelectSeq(pairs, LAMBDA pr : pr[1] # pr[2] /\ pr[2] \notin DOMAIN results[pr[1]])
        foundBw == [k \in 1..Len(found) |-> spfaPaths[found[k]].bandwidth]
        maxBw == MaxRange(foundBw, 1, Len(found))
        totalBw == SumRange(foundBw, 1, Len(found))
        pxn == applyPxnPaths(spfaPaths, gpuNodes, nicNodes, env)
    IN  [system |-> [system EXCEPT !.paths = pxn.paths, !.maxBw = maxBw, !.totalBw = totalBw],
         emits |->
             <<Emit("computePaths", "Clear existing paths", <<>>, <<>>)>>
             \o (IF nvbDisabled
                 THEN <<Emit("computePaths", "NVB routing disabled", <<>>, <<>>)>>
                 ELSE <<>>)
             \o <<Emit("computePaths", "Running SPFA", <<Len(gpuNodes), Len(nicNodes)>>,
                       <<Len(gpuNodes), Len(nicNodes)>>)>>
             \o [k \in 1..Len(missing) |->
                    Emit("computePaths", "No path found", missing[k], missing[k])]
             \o <<Emit("computePaths", "Computed paths", <<Len(found), maxBw, totalBw>>,
                       <<Len(found), maxBw, totalBw>>)>>
             \o pxn.emits
             \o pathSummary(pxn.paths, gpuNodes)]

(***************************************************************************)
(* trimSystem (paths.ts)                                                   *)
(***************************************************************************)
\* The identities reachable from the set R over the links taken in both
\* directions (the breadth-first search of trimSystem visits exactly these).
RECURSIVE reachableIds(_, _)
reachableIds(links, R) ==
    LET next == R \cup {links[i].toId : i \in {k \in 1..Len(links) : links[k].fromId \in R}}
                  \cup {links[i].fromId : i \in {k \in 1..Len(links) : links[k].toId \in R}}
    IN  IF next = R THEN R ELSE reachableIds(links, next)

\* Whether every ordered pair of distinct GPUs has a stored path of type below NET.
allLocal(paths, gpuNodes) ==
    \A i \in 1..Len(gpuNodes) : \A j \in 1..Len(gpuNodes) :
        i = j \/ (/\ hasPath(paths, gpuNodes[i].id, gpuNodes[j].id)
                  /\ paths[pathKey(gpuNodes[i].id, gpuNodes[j].id)].type # PATH_DIS
                  /\ paths[pathKey(gpuNodes[i].id, gpuNodes[j].id)].type < PATH_NET)

restrictPaths(paths, removedSet) ==
    [key \in {k \in DOMAIN paths : paths[k].fromId \notin removedSet
                                   /\ paths[k].toId \notin removedSet} |-> paths[key]] @@ <<>>

\* Returns [system, emits].
trimSystem(system) ==
    LET gpuNodes == nodesOfType(system, NODE_GPU)
    IN  IF Len(gpuNodes) = 0
        THEN [system |-> system,
              emits |-> <<Emit("trimSystem", "No GPU nodes in system", <<>>, <<>>)>>]
        ELSE LET reachable == reachableIds(system.links, Range([k \in 1..Len(gpuNodes) |-> gpuNodes[k].id]))
                 kept == SelectSeq(system.nodes, LAMBDA n : n.id \in reachable)
                 removed == SelectSeq(system.nodes, LAMBDA n : n.id \notin reachable)
                 removedNodes == [k \in 1..Len(removed) |-> removed[k].id]
                 removedSet == Range(removedNodes)
                 links == SelectSeq(system.links,
                                    LAMBDA l : l.fromId \notin removedSet /\ l.toId \notin removedSet)
                 paths == restrictPaths(system.paths, removedSet)
                 inter == ~ allLocal(paths, gpuNodes)
             IN  [system |-> [system EXCEPT !.nodes = kept, !.links = links, !.paths = paths,
                                            !.nodesByType = groupByType(kept),
                                            !.inter = inter],
                  emits |->
                      <<IF Len(removedNodes) > 0
                        THEN Emit("trimSystem", "Removed unreachable nodes",
                                  <<Len(removedNodes), Len(system.nodes), Len(kept)>>, removedNodes)
                        ELSE Emit("trimSystem", "No unreachable nodes found", <<>>, <<>>),
                        Emit("trimSystem", "Inter-node connectivity", <<inter>>, <<inter>>)>>]

(***************************************************************************)
(* Ring search (search.ts)                                                 *)
(***************************************************************************)
getGpuNodes(system) == nodesOfType(system, NODE_GPU)

\* The minimum compute capability over the GPUs (80 when there is none).
getMinComputeCap(gpus) ==
    IF Len(gpus) = 0 THEN 80
    ELSE LET caps == {gpus[i].gpu.cudaCompCap : i \in 1..Len(gpus)}
         IN  CHOOSE m \in caps : \A c \in caps : m <= c

\* The path types between GPU pairs i < j that have a stored path.
intraPathTypes(system, gpus) ==
    {system.paths[pathKey(gpus[pr[1]].id, gpus[pr[2]].id)].type :
        pr \in {q \in (1..Len(gpus)) \X (1..Len(gpus)) :
                   q[1] < q[2] /\ hasPath(system.paths, gpus[q[1]].id, gpus[q[2]].id)}}

SetMin(S) == CHOOSE m \in S : \A x \in S : m <= x
SetMax(S) == CHOOSE m \in S : \A x \in S : m >= x

getIntraPathTypeRange(system, gpus) ==
    LET types == intraPathTypes(system, gpus)
        minType == SetMin(types \cup {PATH_DIS})
    IN  IF minType = PATH_DIS
        THEN [minType |-> PATH_PIX, maxType |-> PATH_PHB]
        ELSE [minType |-> minType, maxType |-> SetMax(types \cup {PATH_LOC})]

interPathTypes(system, gpus, nics) ==
    {system.paths[pathKey(gpus[pr[1]].id, nics[pr[2]].id)].type :
        pr \in {q \in (1..Len(gpus)) \X (1..Len(nics)) :
                   hasPath(system.paths, gpus[q[1]].id, nics[q[2]].id)}}

getInterPathTypeRange(system, gpus) ==
    LET nics == nodesOfType(system, NODE_NIC)
    IN  IF Len(nics) = 0 THEN [minType |-> PATH_SYS, maxType |-> PATH_NET]
        ELSE LET types == interPathTypes(system, gpus, nics)
                 minType == SetMin(types \cup {PATH_DIS})
             IN  IF minType = PATH_DIS
                 THEN [minType |-> PATH_NET, maxType |-> PATH_NET]
                 ELSE [minType |-> minType, maxType |-> SetMax(types \cup {PATH_LOC})]

pathTypeToLinkType(pt) ==
    IF pt = PATH_LOC THEN LINK_LOC
    ELSE IF pt = PATH_NVL \/ pt = PATH_NVB THEN LINK_NVL
    ELSE IF pt = PATH_C2C THEN LINK_C2C
    ELSE IF pt \in {PATH_PIX, PATH_PXB, PATH_PXN, PATH_PHB, PATH_P2C} THEN LINK_PCI
    ELSE IF pt = PATH_SYS THEN LINK_SYS
    ELSE IF pt = PATH_NET THEN LINK_NET
    ELSE LINK_PCI

\* The best NIC path of a candidate: the first path, in NIC order, of the
\* largest bandwidth above 0; [bw, nhops].
bestNicPath(system, candidateId) ==
    LET nics == nodesOfType(system, NODE_NIC)
        reach == {n \in 1..Len(nics) : hasPath(system.paths, candidateId, nics[n].id)}
        bws == {system.paths[pathKey(candidateId, nics[n].id)].bandwidth : n \in reach}
        top == SetMax(bws \cup {0})
    IN  IF top = 0 THEN [bw |-> 0, nhops |-> 999]
        ELSE LET n == SetMin({k \in reach :
                                 system.paths[pathKey(candidateId, nics[k].id)].bandwidth = top})
             IN  [bw |-> top, nhops |-> system.paths[pathKey(candidateId, nics[n].id)].count]

scoreGpu(system, fromGpu, candidate) ==
    LET has == hasPath(system.paths, fromGpu.id, candidate.id)
        nic == bestNicPath(system, candidate.id)
    IN  [g |-> candidate.index, startIndex |-> candidate.index,
         intraNhops |-> IF has THEN system.paths[pathKey(fromGpu.id, candidate.id)].count ELSE 999,
         intraBw |-> IF has THEN system.paths[pathKey(fromGpu.id, candidate.id)].bandwidth ELSE 0,
         interNhops |-> nic.nhops, interPciBw |-> nic.bw, interBw |-> nic.bw]

\* compareGpuScores(a, b) < 0
scoreBefore(a, b) ==
    IF a.interBw # b.interBw THEN b.interBw < a.interBw
    ELSE IF a.interPciBw # b.interPciBw THEN b.interPciBw < a.interPciBw
    ELSE IF a.interNhops # b.interNhops THEN a.interNhops < b.interNhops
    ELSE IF a.intraBw # b.intraBw THEN b.intraBw < a.intraBw
    ELSE IF a.intraNhops # b.intraNhops THEN a.intraNhops < b.intraNhops
    ELSE a.startIndex < b.startIndex

\* candidates.sort(compareGpuScores): a stable sort; candidates have distinct
\* startIndex, so the comparison is a strict total order on them.
sortScores(candidates) ==
    [k \in 1..Len(candidates) |->
        candidates[CHOOSE i \in 1..Len(candidates) :
            Cardinality({j \in 1..Len(candidates) : scoreBefore(candidates[j], candidates[i])})
                = k - 1]]

remainingOf(state, paths, fromId, toId) ==
    IF pathKey(fromId, toId) \in DOMAIN state.remainingBw
    THEN state.remainingBw[pathKey(fromId, toId)]
    ELSE paths[pathKey(fromId, toId)].bandwidth

setRemaining(state, fromId, toId, bw) ==
    [state EXCEPT !.remainingBw = (pathKey(fromId, toId) :> bw) @@ state.remainingBw]

\* null for a ring that was not found (a found ring is never empty here).
NoRing == <<>>

\* ringCandidates without the test that a candidate is unvisited.
ringCandidatesRevisiting(ctx, visited, current, first, pathLen, state) ==
    LET gpus == ctx.gpus
        paths == ctx.system.paths
        isLast == pathLen = Len(gpus) - 1
        ok == SelectSeq(gpus, LAMBDA gpu :
                  /\ hasPath(paths, current.id, gpu.id)
                  /\ remainingOf(state, paths, current.id, gpu.id) >= ctx.requiredBw
                  /\ isLast =>
                         /\ hasPath(paths, gpu.id, first.id)
                         /\ remainingOf(state, paths, gpu.id, first.id) >= ctx.requiredBw)
    IN  [k \in 1..Len(ok) |-> scoreGpu(ctx.system, current, ok[k])]

\* The candidate list of searchRingRec, before sorting.
ringCandidates(ctx, visited, current, first, pathLen, state) ==
    LET gpus == ctx.gpus
        paths == ctx.system.paths
        isLast == pathLen = Len(gpus) - 1
        ok == SelectSeq(gpus, LAMBDA gpu :
                  /\ gpu.id \notin visited
                  /\ hasPath(paths, current.id, gpu.id)
                  /\ remainingOf(state, paths, current.id, gpu.id) >= ctx.requiredBw
                  /\ isLast =>
                         /\ hasPath(paths, gpu.id, first.id)
                         /\ remainingOf(state, paths, gpu.id, first.id) >= ctx.requiredBw)
    IN  [k \in 1..Len(ok) |-> scoreGpu(ctx.system, current, ok[k])]

\* searchRingRec and its candidate loop; both return [ring, state], state
\* being [remainingBw, iterations, globalIterations, timedOut].
RECURSIVE searchRingRec(_, _, _, _, _, _)
RECURSIVE tryCandidates(_, _, _, _, _, _, _, _)
searchRingRec(ctx, visited, current, first, path, state0) ==
    LET state == [state0 EXCEPT !.iterations = state0.iterations + 1,
                                !.globalIterations = state0.globalIterations + 1]
    IN  IF state.iterations > ctx.timeout \/ state.globalIterations > SEARCH_GLOBAL_TIMEOUT
        THEN [ring |-> NoRing, state |-> [state EXCEPT !.timedOut = TRUE]]
        ELSE IF Len(path) = Len(ctx.gpus)
        THEN IF /\ hasPath(ctx.system.paths, current.id, first.id)
                /\ remainingOf(state, ctx.system.paths, current.id, first.id) >= ctx.requiredBw
             THEN [ring |-> path, state |-> state]
             ELSE [ring |-> NoRing, state |-> state]
        ELSE tryCandidates(ctx, visited, current, first, path,
                           sortScores(ringCandidates(ctx, visited, current, first, Len(path), state)),
                           1, state)

tryCandidates(ctx, visited, current, first, path, candidates, k, state) ==
    IF k > Len(candidates) THEN [ring |-> NoRing, state |-> state]
    ELSE LET nextGpu == ctx.gpus[candidates[k].g + 1]
             prevBw == remainingOf(state, ctx.system.paths, current.id, nextGpu.id)
             result == searchRingRec(ctx, visited \cup {nextGpu.id}, nextGpu, first,
                                     Append(path, nextGpu.id),
                                     setRemaining(state, current.id, nextGpu.id,
                                                  prevBw - ctx.requiredBw))
         IN  IF result.ring # NoRing THEN result
             ELSE LET restored == setRemaining(result.state, current.id, nextGpu.id, prevBw)
                  IN  IF restored.timedOut THEN [ring |-> NoRing, state |-> restored]
                      ELSE tryCandidates(ctx, visited, current, first, path, candidates,
                                         k + 1, restored)

searchRingFromStart(ctx, startGpu, state) ==
    searchRingRec(ctx, {startGpu.id}, startGpu, startGpu, <<startGpu.id>>, state)

\* The loop of searchForChannels over the starting GPUs; returns [ring, state].
\* afterStart is the loop body once searchRingFromStart has returned result.
RECURSIVE searchFromStarts(_, _, _)
RECURSIVE afterStart(_, _, _)
searchFromStarts(ctx, startIdx, state) ==
    IF startIdx > Len(ctx.gpus) THEN [ring |-> NoRing, state |-> state]
    ELSE afterStart(ctx, startIdx, searchRingFromStart(ctx, ctx.gpus[startIdx], state))

\* afterStart going on to the next starting GPU after a timeout.
afterStartGoingOn(ctx, startIdx, result) ==
    IF result.ring # NoRing THEN result
    ELSE searchFromStarts(ctx, startIdx + 1, result.state)

afterStart(ctx, startIdx, result) ==
    IF result.ring # NoRing \/ result.state.timedOut THEN result
    ELSE searchFromStarts(ctx, startIdx + 1, result.state)

ringEdges(ring) == [i \in 1..Len(ring) |-> <<ring[i], ring[(i % Len(ring)) + 1]>>]

\* tryReusedRing without the bandwidth check.
tryReusedRingUnchecked(system, ring, speed, state) == ring

tryReusedRing(system, ring, speed, state) ==
    IF \A i \in 1..Len(ring) :
           /\ hasPath(system.paths, ringEdges(ring)[i][1], ringEdges(ring)[i][2])
           /\ remainingOf(state, system.paths, ringEdges(ring)[i][1], ringEdges(ring)[i][2]) >= speed
    THEN ring
    ELSE NoRing

RECURSIVE consumeEdges(_, _, _, _, _)
consumeEdges(system, edges, i, speed, state) ==
    IF i > Len(edges) THEN state
    ELSE IF ~ hasPath(system.paths, edges[i][1], edges[i][2])
    THEN consumeEdges(system, edges, i + 1, speed, state)
    ELSE consumeEdges(system, edges, i + 1, speed,
                      setRemaining(state, edges[i][1], edges[i][2],
                                   remainingOf(state, system.paths, edges[i][1], edges[i][2]) - speed))

consumeRingBandwidth(system, ring, speed, state) ==
    consumeEdges(system, ringEdges(ring), 1, speed, state)

mkChannel(id, bandwidth, ringOrder) ==
    [id |-> id, bandwidth |-> bandwidth, ringOrder |-> ringOrder]

\* The channel loop of searchForChannels; st is [state, channels, firstRing].
\* channelFound is the loop body once the ring search of channel ch has
\* returned found.
RECURSIVE channelLoop(_, _, _, _, _)
RECURSIVE channelFound(_, _, _, _, _, _)
channelLoop(ctx, maxChannels, sameChannels, ch, st) ==
    IF ~ (ch < maxChannels /\ ch < MAXCHANNELS) THEN st
    ELSE channelFound(ctx, maxChannels, sameChannels, ch, st,
             IF sameChannels = 1 /\ st.firstRing # NoRing
             THEN [ring |-> tryReusedRing(ctx.system, st.firstRing, ctx.requiredBw,
                                          [st.state EXCEPT !.iterations = 0]),
                   state |-> [st.state EXCEPT !.iterations = 0]]
             ELSE searchFromStarts(ctx, 1, [st.state EXCEPT !.iterations = 0]))

channelFound(ctx, maxChannels, sameChannels, ch, st, found) ==
    IF found.ring = NoRing THEN [st EXCEPT !.state = found.state]
    ELSE LET consumed == consumeRingBandwidth(ctx.system, found.ring, ctx.requiredBw,
                                              found.state)
             next == [state |-> consumed,
                      channels |-> Append(st.channels,
                                          mkChannel(ch, ctx.requiredBw, found.ring)),
                      firstRing |-> IF ch = 0 THEN found.ring ELSE st.firstRing]
         IN  IF consumed.globalIterations > SEARCH_GLOBAL_TIMEOUT
             THEN [next EXCEPT !.state.timedOut = TRUE]
             ELSE channelLoop(ctx, maxChannels, sameChannels, ch + 1, next)

initRemainingBw(paths) == [key \in DOMAIN paths |-> paths[key].bandwidth] @@ <<>>

\* The search context of searchForChannels, with the timeout of its pattern.
searchCtx(system, gpus, pattern, speed, sameChannels) ==
    [system |-> system, gpus |-> gpus, requiredBw |-> speed,
     timeout |-> IF sameChannels = 1 THEN SEARCH_TIMEOUT_SAMECHANNELS
                 ELSE IF pattern = NCCL_TOPO_PATTERN_BALANCED_TREE THEN SEARCH_TIMEOUT_TREE
                 ELSE SEARCH_TIMEOUT]

\* The search state and the empty channel list searchForChannels starts from.
freshSearch(system, globalIterations) ==
    [state |-> [remainingBw |-> initRemainingBw(system.paths), iterations |-> 0,
                globalIterations |-> globalIterations, timedOut |-> FALSE],
     channels |-> <<>>, firstRing |-> NoRing]

\* What searchForChannels returns once its channel loop has ended in st.
searchOutcome(st) ==
    [nChannels |-> Len(st.channels), channels |-> st.channels,
     iterations |-> st.state.iterations,
     globalIterations |-> st.state.globalIterations, timedOut |-> st.state.timedOut]

\* searchForChannels returning a single trivial channel for a single GPU.
searchForChannelsOneTrivial(system, gpus, pattern, speed, maxChannels, sameChannels, globalIterations) ==
    IF Len(gpus) <= 1
    THEN [nChannels |-> 1,
          channels |-> <<mkChannel(0, speed, IF Len(gpus) = 1 THEN <<gpus[1].id>> ELSE <<>>)>>,
          iterations |-> 0, globalIterations |-> globalIterations, timedOut |-> FALSE]
    ELSE searchOutcome(
             IF pattern = NCCL_TOPO_PATTERN_RING \/ pattern = NCCL_TOPO_PATTERN_BALANCED_TREE
             THEN channelLoop(searchCtx(system, gpus, pattern, speed, sameChannels),
                              maxChannels, sameChannels, 0,
                              freshSearch(system, globalIterations))
             ELSE freshSearch(system, globalIterations))

\* searchForChannels on a fresh search state that starts at globalIterations;
\* returns [nChannels, channels, iterations, globalIterations, timedOut], the
\* counters and the flag being those the call leaves in the search state.
searchForChannels(system, gpus, pattern, speed, maxChannels, sameChannels, globalIterations) ==
    IF Len(gpus) <= 1
    THEN LET nCh == Max(0, Min(maxChannels, MAXCHANNELS))
         IN  [nChannels |-> Min(maxChannels, MAXCHANNELS),
              channels |-> [c \in 1..nCh |->
                               mkChannel(c - 1, speed,
                                         IF Len(gpus) = 1 THEN <<gpus[1].id>> ELSE <<>>)],
              iterations |-> 0, globalIterations |-> globalIterations, timedOut |-> FALSE]
    ELSE searchOutcome(
             IF pattern = NCCL_TOPO_PATTERN_RING \/ pattern = NCCL_TOPO_PATTERN_BALANCED_TREE
             THEN channelLoop(searchCtx(system, gpus, pattern, speed, sameChannels),
                              maxChannels, sameChannels, 0,
                              freshSearch(system, globalIterations))
             ELSE freshSearch(system, globalIterations))

\* null for bestResult; a result is kept as a one-element sequence.
NoResult == <<>>

\* The starting speed index (1-based) of ncclTopoCompute.
RECURSIVE startSpeedIndex(_, _, _, _)
startSpeedIndex(speedArray, i, system, nGpus) ==
    IF i >= Len(speedArray) THEN Len(speedArray)
    ELSE IF speedArray[i] <= system.maxBw /\ speedArray[i] * nGpus <= system.totalBw THEN i
    ELSE startSpeedIndex(speedArray, i + 1, system, nGpus)

mkResult(system, found, speed, typeIntra, typeInter) ==
    [nChannels |-> found.nChannels, channels |-> found.channels, speedIntra |-> speed,
     speedInter |-> IF system.inter THEN speed ELSE 0,
     typeIntra |-> typeIntra, typeInter |-> typeInter,
     time |-> IF found.timedOut THEN 0 ELSE -1]

\* The inner relaxation loop of Phase 1 at one speed. rs holds the loop's
\* locals, acc is [bestResult, globalIterations, emits, phase1Done].
\* relaxationStep is the loop body once searchForChannels has returned found.
RECURSIVE relaxationLoop(_, _, _, _)
RECURSIVE relaxationStep(_, _, _, _, _)
relaxationLoop(ctx, speed, rs, acc) ==
    relaxationStep(ctx, speed, rs, acc,
        searchForChannels(ctx.system, ctx.gpus, rs.localPattern, speed,
                          ctx.maxChannels, rs.sameChannels, acc.globalIterations))

relaxationStep(ctx, speed, rs, acc, found) ==
    LET nChannels == found.nChannels
        qualifies == nChannels >= ctx.minChannels
        totalBw == speed * nChannels
        optimal == qualifies /\ ~ found.timedOut /\ totalBw >= ctx.system.totalBw
        enough == qualifies /\ nChannels >= ctx.maxChannels
        acc1 == [bestResult |-> IF qualifies
                                THEN <<mkResult(ctx.system, found, speed,
                                                rs.localTypeIntra, rs.localTypeInter)>>
                                ELSE acc.bestResult,
                 globalIterations |-> found.globalIterations,
                 emits |-> acc.emits
                           \o (IF qualifies
                               THEN <<Emit("ringSearch", "Found channels",
                                           <<rs.sameChannels, rs.localTypeIntra, rs.localTypeInter>>,
                                           <<nChannels, speed, totalBw>>)>>
                               ELSE <<>>)
                           \o (IF optimal
                               THEN <<Emit("ringSearch", "Optimal solution found",
                                           <<nChannels, speed, totalBw, ctx.system.totalBw>>, <<>>)>>
                               ELSE <<>>),
                 phase1Done |-> optimal \/ enough]
    IN  IF acc1.phase1Done THEN acc1
        ELSE IF rs.sameChannels = 1
        THEN relaxationLoop(ctx, speed, [rs EXCEPT !.sameChannels = 0],
                 [acc1 EXCEPT !.emits = @ \o <<Emit("ringSearch", "Relaxation: sameChannels=0",
                                                    IF nChannels < ctx.minChannels
                                                    THEN <<nChannels, ctx.minChannels>> ELSE <<>>,
                                                    <<>>)>>])
        ELSE IF ctx.ccMin >= 90 /\ rs.localPattern = NCCL_TOPO_PATTERN_BALANCED_TREE
        THEN relaxationLoop(ctx, speed,
                 [rs EXCEPT !.localPattern = NCCL_TOPO_PATTERN_RING, !.sameChannels = 1],
                 [acc1 EXCEPT !.emits = @ \o <<Emit("ringSearch",
                     "Relaxation: Switch from BALANCED_TREE to RING pattern (Hopper+)", <<>>, <<>>)>>])
        ELSE IF rs.localTypeIntra < ctx.typeIntraMax
        THEN relaxationLoop(ctx, speed,
                 [rs EXCEPT !.localTypeIntra = @ + 1, !.sameChannels = 1],
                 [acc1 EXCEPT !.emits = @ \o <<Emit("ringSearch", "Relaxation: Increase typeIntra",
                     <<rs.localTypeIntra + 1, ctx.typeIntraMax>>, <<>>)>>])
        ELSE IF ctx.system.inter /\ rs.localTypeInter < ctx.typeInterMax
        THEN relaxationLoop(ctx, speed,
                 [rs EXCEPT !.localTypeInter = @ + 1, !.sameChannels = 1],
                 [acc1 EXCEPT !.emits = @ \o <<Emit("ringSearch", "Relaxation: Increase typeInter",
                     <<rs.localTypeInter + 1, ctx.typeInterMax>>, <<>>)>>])
        ELSE IF ctx.system.inter /\ ctx.crossNic = 2 /\ rs.localCrossNic = 0
        THEN relaxationLoop(ctx, speed, [rs EXCEPT !.localCrossNic = 1, !.sameChannels = 1],
                 [acc1 EXCEPT !.emits = @ \o <<Emit("ringSearch", "Relaxation: Enable crossNic",
                                                    <<>>, <<>>)>>])
        ELSE acc1

\* The outer loop of Phase 1 over decreasing speeds; returns [acc, si].
\* speedStep is the loop body once the relaxation loop has returned r.
RECURSIVE speedLoop(_, _, _)
RECURSIVE speedStep(_, _, _)
speedLoop(ctx, si, acc) ==
    IF ~ (si <= Len(ctx.speedArray) /\ ~ acc.phase1Done) THEN [acc |-> acc, si |-> si]
    ELSE speedStep(ctx, si,
             relaxationLoop(ctx, ctx.speedArray[si],
                            [sameChannels |-> 1, localTypeIntra |-> ctx.typeIntra,
                             localTypeInter |-> ctx.typeInter,
                             localCrossNic |-> IF ctx.crossNic = 2 THEN 0 ELSE ctx.crossNic,
                             localPattern |-> ctx.patternNum],
                            acc))

speedStep(ctx, si, r) ==
    IF r.phase1Done THEN [acc |-> r, si |-> si]
    ELSE speedLoop(ctx, si + 1,
             IF si + 1 <= Len(ctx.speedArray)
             THEN [r EXCEPT !.emits = @ \o <<Emit("ringSearch", "Decreasing speed",
                       <<ctx.speedArray[si], ctx.speedArray[si + 1]>>,
                       <<ctx.speedArray[si], ctx.speedArray[si + 1]>>)>>]
             ELSE r)

\* The loop of Phase 2 over increasing speeds, optSi counting down.
\* optimizeStep is the loop body once searchForChannels has returned found.
RECURSIVE optimizeLoop(_, _, _)
RECURSIVE optimizeStep(_, _, _, _)
optimizeLoop(ctx, optSi, acc) ==
    IF optSi < ctx.speedIndex THEN acc
    ELSE optimizeStep(ctx, optSi, acc,
             searchForChannels(ctx.system, ctx.gpus, ctx.patternNum, ctx.speedArray[optSi],
                               ctx.maxChannels, 0, acc.globalIterations))

optimizeStep(ctx, optSi, acc, found) ==
    LET optSpeed == ctx.speedArray[optSi]
        best == acc.bestResult[1]
        newTotalBw == optSpeed * found.nChannels
        oldTotalBw == best.speedIntra * best.nChannels
        improved == found.nChannels >= ctx.minChannels /\ newTotalBw > oldTotalBw
        acc1 == [bestResult |-> IF improved
                                THEN <<mkResult(ctx.system, found, optSpeed,
                                                best.typeIntra, best.typeInter)>>
                                ELSE acc.bestResult,
                 globalIterations |-> found.globalIterations,
                 emits |-> acc.emits \o
                           (IF improved
                            THEN <<Emit("ringSearch", "Phase 2: Improved",
                                        <<found.nChannels, optSpeed, newTotalBw, oldTotalBw>>,
                                        <<found.nChannels, optSpeed, newTotalBw, oldTotalBw>>)>>
                            ELSE <<>>),
                 phase1Done |-> acc.phase1Done]
    IN  IF acc1.globalIterations > SEARCH_GLOBAL_TIMEOUT THEN acc1
        ELSE optimizeLoop(ctx, optSi - 1, acc1)

\* The graph id: its text prefix and the clock value Date.now() returned.
graphId(kind, now) == [kind |-> kind, stamp |-> now]

buildEmptyGraph(pattern, gpus, now) ==
    LET channels == IF Len(gpus) > 0
                    THEN <<mkChannel(0, 0, [k \in 1..Len(gpus) |-> gpus[k].id])>>
                    ELSE <<>>
    IN  [id |-> graphId("graph-empty", now), pattern |-> pattern,
         nChannels |-> Len(channels), channels |-> channels,
         speedIntra |-> 0, speedInter |-> 0, typeIntra |-> LINK_PCI, typeInter |-> LINK_NET]

\* The values ncclTopoCompute fixes before its search: the GPUs, the path
\* type ranges, the speed array with its starting index and the clamped bounds.
searchContext(system, pattern, minChannels0, maxChannels0, env) ==
    LET gpus == getGpuNodes(system)
        ccMin == getMinComputeCap(gpus)
        crossNic0 == getEnvInt(env, "NCCL_CROSS_NIC")
        intraRange == getIntraPathTypeRange(system, gpus)
        interRange == IF system.inter THEN getInterPathTypeRange(system, gpus)
                      ELSE [minType |-> PATH_SYS, maxType |-> PATH_NET]
        speedArray == getSpeedArrays(ccMin, system.inter)
    IN  [system |-> system, gpus |-> gpus, ccMin |-> ccMin,
         crossNic |-> IF crossNic0 = -2 THEN 2 ELSE crossNic0,
         typeIntra |-> intraRange.minType, typeIntraMax |-> intraRange.maxType,
         typeInter |-> interRange.minType, typeInterMax |-> interRange.maxType,
         speedArray |-> speedArray,
         speedIndex |-> startSpeedIndex(speedArray, 1, system, Len(gpus)),
         patternNum |-> pattern,
         minChannels |-> IF minChannels0 < 1 THEN 1 ELSE minChannels0,
         maxChannels |-> IF maxChannels0 > MAXCHANNELS THEN MAXCHANNELS ELSE maxChannels0]

\* The log entries ncclTopoCompute writes before Phase 1.
searchInitEmits(ctx) ==
    <<Emit("searchInit", "Intra path type range",
           <<ctx.typeIntra, ctx.typeIntraMax, ctx.typeInter, ctx.typeInterMax>>,
           <<ctx.ccMin, Len(ctx.gpus)>>),
      Emit("searchInit", "Selected speed array", <<ctx.ccMin, ctx.system.inter>>, ctx.speedArray),
      Emit("searchInit", "Starting speed index",
           <<ctx.speedIndex - 1, ctx.speedArray[ctx.speedIndex], ctx.minChannels, ctx.maxChannels>>,
           <<ctx.system.maxBw, ctx.system.totalBw>>),
      Emit("ringSearch", "Phase 1: Searching for initial solution", <<>>, <<>>)>>

\* Phase 2 of ncclTopoCompute on the outcome phase1 of Phase 1.
searchPhase2(ctx, phase1) ==
    IF /\ phase1.acc.bestResult # NoResult
       /\ phase1.acc.bestResult[1].time # -1
       /\ phase1.si - 1 > 0
    THEN optimizeLoop(ctx, phase1.si - 1,
             [phase1.acc EXCEPT !.emits = @ \o
                 <<Emit("ringSearch", "Phase 2: Optimizing",
                        <<phase1.acc.bestResult[1].nChannels,
                          phase1.acc.bestResult[1].speedIntra>>, <<>>)>>])
    ELSE phase1.acc

\* The graph ncclTopoCompute returns for the outcome phase2 of its two phases.
searchResult(pattern, gpus, now, phase2) ==
    IF phase2.bestResult = NoResult \/ phase2.bestResult[1].nChannels = 0
    THEN [graph |-> buildEmptyGraph(pattern, gpus, now),
          emits |-> phase2.emits \o
                    <<Emit("ringSearch", "No valid ring found - returning empty graph",
                           <<>>, <<>>)>>]
    ELSE LET best == phase2.bestResult[1]
         IN  [graph |-> [id |-> graphId(IF pattern = NCCL_TOPO_PATTERN_RING
                                        THEN "graph-ring" ELSE "graph-tree", now),
                         pattern |-> pattern, nChannels |-> best.nChannels,
                         channels |-> [idx \in 1..Len(best.channels) |->
                                          [best.channels[idx] EXCEPT !.id = idx - 1]],
                         speedIntra |-> best.speedIntra, speedInter |-> best.speedInter,
                         typeIntra |-> pathTypeToLinkType(best.typeIntra),
                         typeInter |-> pathTypeToLinkType(best.typeInter)],
              emits |-> phase2.emits \o
                        <<Emit("channelSetup", "Final result",
                               <<best.nChannels, best.speedIntra, best.typeIntra>>,
                               <<best.speedInter, best.typeInter>>)>>]

\* The two phases of ncclTopoCompute on its search context.
searchPhases(ctx, pattern, now) ==
    searchResult(pattern, ctx.gpus, now,
        searchPhase2(ctx,
            speedLoop(ctx, ctx.speedIndex,
                      [bestResult |-> NoResult, globalIterations |-> 0,
                       emits |-> searchInitEmits(ctx), phase1Done |-> FALSE])))

\* ncclTopoCompute; returns [graph, emits]. now is the value Date.now()
\* returns when the graph id is formed.
ncclTopoCompute(system, pattern, minChannels0, maxChannels0, env, now) ==
    searchPhases(searchContext(system, pattern, minChannels0, maxChannels0, env), pattern, now)

\* A ringBase token: a GPU index of the model, or a NIC reference (N0, N1, ...).
tokenGpu(i) == [nic |-> FALSE, idx |-> i]
tokenNic(i) == [nic |-> TRUE, idx |-> i]

\* The registry models; ringBase is the list of rings split at '|', each the
\* list of its whitespace-separated tokens; pattern is the list of its digits.
rome_model_22 ==
    [id |-> "rome_model_22", nGpus |-> 8, nCpus |-> 4, nNics |-> 1, nLinks |-> 2,
     gpuNuma |-> <<1, 0, 1, 2, 3, 1, 2, 3>>, nicNuma |-> <<2>>,
     connMatrix |-> <<0, 1, 0, 0, 0, 0, 1, 0,
                      1, 0, 1, 0, 0, 0, 0, 0,
                      0, 1, 0, 1, 0, 0, 0, 0,
                      0, 0, 1, 0, 0, 0, 0, 1,
                      0, 0, 0, 0, 0, 1, 0, 1,
                      0, 0, 0, 0, 1, 0, 1, 0,
                      1, 0, 0, 0, 0, 1, 0, 0,
                      0, 0, 0, 1, 1, 0, 0, 0>>,
     pattern |-> <<1, 0, 3, 0, 2, 1, 2, 0>>,
     ringBase |-> <<<<tokenGpu(7), tokenGpu(4), tokenGpu(5), tokenGpu(3), tokenGpu(1), tokenGpu(0), tokenGpu(6), tokenGpu(2)>>,
                    <<tokenGpu(4), tokenGpu(7), tokenGpu(3), tokenGpu(5), tokenGpu(0), tokenGpu(1), tokenGpu(2), tokenGpu(6)>>>>]

rome_model_25 ==
    [id |-> "rome_model_25", nGpus |-> 8, nCpus |-> 4, nNics |-> 2, nLinks |-> 2,
     gpuNuma |-> <<0, 1, 1, 1, 2, 2, 2, 3>>, nicNuma |-> <<0, 3>>,
     connMatrix |-> <<0, 1, 0, 1, 0, 0, 0, 0,
                      1, 0, 1, 0, 0, 0, 0, 0,
                      0, 1, 0, 1, 0, 0, 0, 0,
                      1, 0, 1, 0, 0, 0, 0, 0,
                      0, 0, 0, 0, 0, 1, 0, 1,
                      0, 0, 0, 0, 1, 0, 1, 0,
                      0, 0, 0, 0, 0, 1, 0, 1,
                      0, 0, 0, 0, 1, 0, 1, 0>>,
     pattern |-> <<1, 1, 3, 0, 3, 0, 1, 1>>,
     ringBase |-> <<<<tokenGpu(2), tokenGpu(1), tokenGpu(0), tokenGpu(3), tokenGpu(6), tokenGpu(7), tokenGpu(5), tokenGpu(4)>>,
                    <<tokenGpu(7), tokenGpu(6), tokenGpu(4), tokenGpu(5), tokenGpu(1), tokenGpu(2), tokenGpu(3), tokenGpu(0)>>>>]

rome_model_29 ==
    [id |-> "rome_model_29", nGpus |-> 8, nCpus |-> 4, nNics |-> 1, nLinks |-> 3,
     gpuNuma |-> <<0, 1, 1, 1, 2, 2, 3, 3>>, nicNuma |-> <<2>>,
     connMatrix |-> <<0, 1, 1, 1, 0, 0, 0, 0,
                      1, 0, 1, 1, 0, 0, 0, 0,
                      1, 1, 0, 1, 0, 0, 0, 0,
                      1, 1, 1, 0, 0, 0, 0, 0,
                      0, 0, 0, 0, 0, 1, 1, 1,
                      0, 0, 0, 0, 1, 0, 1, 1,
                      0, 0, 0, 0, 1, 1, 0, 1,
                      0, 0, 0, 0, 1, 1, 1, 0>>,
     pattern |-> <<1, 0, 3, 0, 2, 1, 2, 0>>,
     ringBase |-> <<<<tokenGpu(0), tokenGpu(1), tokenGpu(3), tokenGpu(2), tokenGpu(4), tokenGpu(5), tokenGpu(7), tokenGpu(6)>>,
                    <<tokenGpu(6), tokenGpu(7), tokenGpu(5), tokenGpu(4), tokenGpu(2), tokenGpu(3), tokenGpu(1), tokenGpu(0)>>,
                    <<tokenGpu(0), tokenGpu(1), tokenGpu(2), tokenGpu(3), tokenGpu(4), tokenGpu(6), tokenGpu(7), tokenGpu(5)>>,
                    <<tokenGpu(5), tokenGpu(7), tokenGpu(6), tokenGpu(4), tokenGpu(3), tokenGpu(2), tokenGpu(1), tokenGpu(0)>>>>]

rome_model_52 ==
    [id |-> "rome_model_52", nGpus |-> 8, nCpus |-> 1, nNics |-> 0, nLinks |-> 3,
     gpuNuma |-> <<0, 0, 0, 0, 0, 0, 0, 0>>, nicNuma |-> <<>>,
     connMatrix |-> <<0, 1, 1, 0, 0, 0, 1, 0,
                      1, 0, 0, 1, 0, 1, 0, 0,
                      1, 0, 0, 1, 1, 0, 0, 0,
                      0, 1, 1, 0, 0, 0, 0, 1,
                      0, 0, 1, 0, 0, 1, 1, 0,
                      0, 1, 0, 0, 1, 0, 0, 1,
                      1, 0, 0, 0, 1, 0, 0, 1,
                      0, 0, 0, 1, 0, 1, 1, 0>>,
     pattern |-> <<8, 0>>,
     ringBase |-> <<<<tokenGpu(0), tokenGpu(1), tokenGpu(3), tokenGpu(2), tokenGpu(4), tokenGpu(5), tokenGpu(7), tokenGpu(6)>>,
                    <<tokenGpu(6), tokenGpu(7), tokenGpu(5), tokenGpu(4), tokenGpu(2), tokenGpu(3), tokenGpu(1), tokenGpu(0)>>,
                    <<tokenGpu(0), tokenGpu(1), tokenGpu(5), tokenGpu(4), tokenGpu(6), tokenGpu(7), tokenGpu(3), tokenGpu(2)>>,
                    <<tokenGpu(2), tokenGpu(3), tokenGpu(7), tokenGpu(6), tokenGpu(4), tokenGpu(5), tokenGpu(1), tokenGpu(0)>>>>]

rome_model_53 ==
    [id |-> "rome_model_53", nGpus |-> 8, nCpus |-> 4, nNics |-> 4, nLinks |-> 3,
     gpuNuma |-> <<1, 1, 3, 3, 5, 5, 7, 7>>, nicNuma |-> <<1, 3, 5, 7>>,
     connMatrix |-> <<0, 1, 1, 1, 0, 0, 0, 0,
                      1, 0, 1, 1, 0, 0, 0, 0,
                      1, 1, 0, 1, 0, 0, 0, 0,
                      1, 1, 1, 0, 0, 0, 0, 0,
                      0, 0, 0, 0, 0, 1, 1, 1,
                      0, 0, 0, 0, 1, 0, 1, 1,
                      0, 0, 0, 0, 1, 1, 0, 1,
                      0, 0, 0, 0, 1, 1, 1, 0>>,
     pattern |-> <<2, 1, 2, 1, 2, 1, 2, 1>>,
     ringBase |-> <<<<tokenNic(0), tokenGpu(0), tokenGpu(1), tokenGpu(2), tokenGpu(3), tokenGpu(4), tokenGpu(5), tokenGpu(6), tokenGpu(7), tokenNic(3)>>,
                    <<tokenNic(3), tokenGpu(7), tokenGpu(6), tokenGpu(5), tokenGpu(4), tokenGpu(3), tokenGpu(2), tokenGpu(1), tokenGpu(0), tokenNic(0)>>,
                    <<tokenNic(1), tokenGpu(2), tokenGpu(3), tokenGpu(0), tokenGpu(1), tokenGpu(6), tokenGpu(7), tokenGpu(4), tokenGpu(5), tokenNic(2)>>,
                    <<tokenNic(2), tokenGpu(5), tokenGpu(4), tokenGpu(7), tokenGpu(6), tokenGpu(1), tokenGpu(0), tokenGpu(3), tokenGpu(2), tokenNic(1)>>>>]

rome_model_43 ==
    [id |-> "rome_model_43", nGpus |-> 8, nCpus |-> 4, nNics |-> 0, nLinks |-> 3,
     gpuNuma |-> <<0, 0, 1, 1, 2, 2, 3, 3>>, nicNuma |-> <<>>,
     connMatrix |-> <<0, 1, 1, 1, 0, 0, 0, 0,
                      1, 0, 1, 1, 0, 0, 0, 0,
                      1, 1, 0, 1, 0, 0, 0, 0,
                      1, 1, 1, 0, 0, 0, 0, 0,
                      0, 0, 0, 0, 0, 1, 1, 1,
                      0, 0, 0, 0, 1, 0, 1, 1,
                      0, 0, 0, 0, 1, 1, 0, 1,
                      0, 0, 0, 0, 1, 1, 1, 0>>,
     pattern |-> <<2, 0, 2, 0, 2, 0, 2, 0>>,
     ringBase |-> <<<<tokenGpu(0), tokenGpu(1), tokenGpu(3), tokenGpu(2), tokenGpu(4), tokenGpu(5), tokenGpu(7), tokenGpu(6)>>,
                    <<tokenGpu(6), tokenGpu(7), tokenGpu(5), tokenGpu(4), tokenGpu(2), tokenGpu(3), tokenGpu(1), tokenGpu(0)>>,
                    <<tokenGpu(0), tokenGpu(2), tokenGpu(3), tokenGpu(1), tokenGpu(4), tokenGpu(6), tokenGpu(7), tokenGpu(5)>>,
                    <<tokenGpu(5), tokenGpu(7), tokenGpu(6), tokenGpu(4), tokenGpu(1), tokenGpu(3), tokenGpu(2), tokenGpu(0)>>>>]

rome_model_55 ==
    [id |-> "rome_model_55", nGpus |-> 8, nCpus |-> 2, nNics |-> 0, nLinks |-> 7,
     gpuNuma |-> <<0, 0, 0, 0, 1, 1, 1, 1>>, nicNuma |-> <<>>,
     connMatrix |-> <<0, 1, 1, 1, 1, 1, 1, 1,
                      1, 0, 1, 1, 1, 1, 1, 1,
                      1, 1, 0, 1, 1, 1, 1, 1,
                      1, 1, 1, 0, 1, 1, 1, 1,
                      1, 1, 1, 1, 0, 1, 1, 1,
                      1, 1, 1, 1, 1, 0, 1, 1,
                      1, 1, 1, 1, 1, 1, 0, 1,
                      1, 1, 1, 1, 1, 1, 1, 0>>,
     pattern |-> <<4, 0, 4, 0>>,
     ringBase |-> <<<<tokenGpu(0), tokenGpu(1), tokenGpu(2), tokenGpu(3), tokenGpu(4), tokenGpu(5), tokenGpu(6), tokenGpu(7)>>,
                    <<tokenGpu(7), tokenGpu(6), tokenGpu(5), tokenGpu(4), tokenGpu(3), tokenGpu(2), tokenGpu(1), tokenGpu(0)>>,
                    <<tokenGpu(0), tokenGpu(2), tokenGpu(1), tokenGpu(3), tokenGpu(4), tokenGpu(6), tokenGpu(5), tokenGpu(7)>>,
                    <<tokenGpu(7), tokenGpu(5), tokenGpu(6), tokenGpu(4), tokenGpu(3), tokenGpu(1), tokenGpu(2), tokenGpu(0)>>,
                    <<tokenGpu(0), tokenGpu(3), tokenGpu(2), tokenGpu(1), tokenGpu(4), tokenGpu(7), tokenGpu(6), tokenGpu(5)>>,
                    <<tokenGpu(5), tokenGpu(6), tokenGpu(7), tokenGpu(4), tokenGpu(1), tokenGpu(2), tokenGpu(3), tokenGpu(0)>>>>]

rome_model_56 ==
    [id |-> "rome_model_56", nGpus |-> 8, nCpus |-> 2, nNics |-> 2, nLinks |-> 7,
     gpuNuma |-> <<0, 0, 0, 0, 1, 1, 1, 1>>, nicNuma |-> <<0, 1>>,
     connMatrix |-> <<0, 1, 1, 1, 1, 1, 1, 1,
                      1, 0, 1, 1, 1, 1, 1, 1,
                      1, 1, 0, 1, 1, 1, 1, 1,
                      1, 1, 1, 0, 1, 1, 1, 1,
                      1, 1, 1, 1, 0, 1, 1, 1,
                      1, 1, 1, 1, 1, 0, 1, 1,
                      1, 1, 1, 1, 1, 1, 0, 1,
                      1, 1, 1, 1, 1, 1, 1, 0>>,
     pattern |-> <<4, 1, 4, 1>>,
     ringBase |-> <<<<tokenNic(0), tokenGpu(0), tokenGpu(1), tokenGpu(2), tokenGpu(3), tokenGpu(4), tokenGpu(5), tokenGpu(6), tokenGpu(7), tokenNic(1)>>,
                    <<tokenNic(1), tokenGpu(7), tokenGpu(6), tokenGpu(5), tokenGpu(4), tokenGpu(3), tokenGpu(2), tokenGpu(1), tokenGpu(0), tokenNic(0)>>,
                    <<tokenNic(0), tokenGpu(0), tokenGpu(2), tokenGpu(1), tokenGpu(3), tokenGpu(4), tokenGpu(6), tokenGpu(5), tokenGpu(7), tokenNic(1)>>,
                    <<tokenNic(1), tokenGpu(7), tokenGpu(5), tokenGpu(6), tokenGpu(4), tokenGpu(3), tokenGpu(1), tokenGpu(2), tokenGpu(0), tokenNic(0)>>>>]

rome_model_58 ==
    [id |-> "rome_model_58", nGpus |-> 8, nCpus |-> 2, nNics |-> 4, nLinks |-> 7,
     gpuNuma |-> <<0, 0, 0, 0, 1, 1, 1, 1>>, nicNuma |-> <<0, 0, 1, 1>>,
     connMatrix |-> <<0, 1, 1, 1, 1, 1, 1, 1,
                      1, 0, 1, 1, 1, 1, 1, 1,
                      1, 1, 0, 1, 1, 1, 1, 1,
                      1, 1, 1, 0, 1, 1, 1, 1,
                      1, 1, 1, 1, 0, 1, 1, 1,
                      1, 1, 1, 1, 1, 0, 1, 1,
                      1, 1, 1, 1, 1, 1, 0, 1,
                      1, 1, 1, 1, 1, 1, 1, 0>>,
     pattern |-> <<4, 2, 4, 2>>,
     ringBase |-> <<<<tokenNic(0), tokenGpu(0), tokenGpu(1), tokenGpu(2), tokenGpu(3), tokenGpu(4), tokenGpu(5), tokenGpu(6), tokenGpu(7), tokenNic(3)>>,
                    <<tokenNic(3), tokenGpu(7), tokenGpu(6), tokenGpu(5), tokenGpu(4), tokenGpu(3), tokenGpu(2), tokenGpu(1), tokenGpu(0), tokenNic(0)>>,
                    <<tokenNic(1), tokenGpu(0), tokenGpu(2), tokenGpu(1), tokenGpu(3), tokenGpu(4), tokenGpu(6), tokenGpu(5), tokenGpu(7), tokenNic(2)>>,
                    <<tokenNic(2), tokenGpu(7), tokenGpu(5), tokenGpu(6), tokenGpu(4), tokenGpu(3), tokenGpu(1), tokenGpu(2), tokenGpu(0), tokenNic(1)>>>>]

rome_model_59 ==
    [id |-> "rome_model_59", nGpus |-> 8, nCpus |-> 2, nNics |-> 8, nLinks |-> 7,
     gpuNuma |-> <<0, 0, 0, 0, 1, 1, 1, 1>>, nicNuma |-> <<0, 0, 0, 0, 1, 1, 1, 1>>,
     connMatrix |-> <<0, 1, 1, 1, 1, 1, 1, 1,
                      1, 0, 1, 1, 1, 1, 1, 1,
                      1, 1, 0, 1, 1, 1, 1, 1,
                      1, 1, 1, 0, 1, 1, 1, 1,
                      1, 1, 1, 1, 0, 1, 1, 1,
                      1, 1, 1, 1, 1, 0, 1, 1,
                      1, 1, 1, 1, 1, 1, 0, 1,
                      1, 1, 1, 1, 1, 1, 1, 0>>,
     pattern |-> <<4, 8, 4, 8>>,
     ringBase |-> <<<<tokenNic(0), tokenGpu(0), tokenGpu(1), tokenGpu(2), tokenGpu(3), tokenGpu(4), tokenGpu(5), tokenGpu(6), tokenGpu(7), tokenNic(7)>>,
                    <<tokenNic(7), tokenGpu(7), tokenGpu(6), tokenGpu(5), tokenGpu(4), tokenGpu(3), tokenGpu(2), tokenGpu(1), tokenGpu(0), tokenNic(0)>>,
                    <<tokenNic(1), tokenGpu(0), tokenGpu(2), tokenGpu(1), tokenGpu(3), tokenGpu(4), tokenGpu(6), tokenGpu(5), tokenGpu(7), tokenNic(6)>>,
                    <<tokenNic(6), tokenGpu(7), tokenGpu(5), tokenGpu(6), tokenGpu(4), tokenGpu(3), tokenGpu(1), tokenGpu(2), tokenGpu(0), tokenNic(1)>>,
                    <<tokenNic(2), tokenGpu(0), tokenGpu(3), tokenGpu(2), tokenGpu(1), tokenGpu(4), tokenGpu(7), tokenGpu(6), tokenGpu(5), tokenNic(5)>>,
                    <<tokenNic(5), tokenGpu(5), tokenGpu(6), tokenGpu(7), tokenGpu(4), tokenGpu(1), tokenGpu(2), tokenGpu(3), tokenGpu(0), tokenNic(2)>>,
                    <<tokenNic(3), tokenGpu(0), tokenGpu(1), tokenGpu(3), tokenGpu(2), tokenGpu(4), tokenGpu(5), tokenGpu(7), tokenGpu(6), tokenNic(4)>>,
                    <<tokenNic(4), tokenGpu(6), tokenGpu(7), tokenGpu(5), tokenGpu(4), tokenGpu(2), tokenGpu(3), tokenGpu(1), tokenGpu(0), tokenNic(3)>>>>]

rome_model_62 ==
    [id |-> "rome_model_62", nGpus |-> 8, nCpus |-> 4, nNics |-> 0, nLinks |-> 7,
     gpuNuma |-> <<0, 0, 1, 1, 2, 2, 3, 3>>, nicNuma |-> <<>>,
     connMatrix |-> <<0, 1, 1, 1, 1, 1, 1, 1,
                      1, 0, 1, 1, 1, 1, 1, 1,
                      1, 1, 0, 1, 1, 1, 1, 1,
                      1, 1, 1, 0, 1, 1, 1, 1,
                      1, 1, 1, 1, 0, 1, 1, 1,
                      1, 1, 1, 1, 1, 0, 1, 1,
                      1, 1, 1, 1, 1, 1, 0, 1,
                      1, 1, 1, 1, 1, 1, 1, 0>>,
     pattern |-> <<2, 0, 2, 0, 2, 0, 2, 0>>,
     ringBase |-> <<<<tokenGpu(0), tokenGpu(1), tokenGpu(2), tokenGpu(3), tokenGpu(4), tokenGpu(5), tokenGpu(6), tokenGpu(7)>>,
                    <<tokenGpu(7), tokenGpu(6), tokenGpu(5), tokenGpu(4), tokenGpu(3), tokenGpu(2), tokenGpu(1), tokenGpu(0)>>,
                    <<tokenGpu(0), tokenGpu(2), tokenGpu(1), tokenGpu(3), tokenGpu(4), tokenGpu(6), tokenGpu(5), tokenGpu(7)>>,
                    <<tokenGpu(7), tokenGpu(5), tokenGpu(6), tokenGpu(4), tokenGpu(3), tokenGpu(1), tokenGpu(2), tokenGpu(0)>>,
                    <<tokenGpu(0), tokenGpu(3), tokenGpu(2), tokenGpu(1), tokenGpu(4), tokenGpu(7), tokenGpu(6), tokenGpu(5)>>,
                    <<tokenGpu(5), tokenGpu(6), tokenGpu(7), tokenGpu(4), tokenGpu(1), tokenGpu(2), tokenGpu(3), tokenGpu(0)>>>>]

rome_model_65 ==
    [id |-> "rome_model_65", nGpus |-> 8, nCpus |-> 4, nNics |-> 4, nLinks |-> 7,
     gpuNuma |-> <<0, 0, 1, 1, 2, 2, 3, 3>>, nicNuma |-> <<0, 1, 2, 3>>,
     connMatrix |-> <<0, 1, 1, 1, 1, 1, 1, 1,
                      1, 0, 1, 1, 1, 1, 1, 1,
                      1, 1, 0, 1, 1, 1, 1, 1,
                      1, 1, 1, 0, 1, 1, 1, 1,
                      1, 1, 1, 1, 0, 1, 1, 1,
                      1, 1, 1, 1, 1, 0, 1, 1,
                      1, 1, 1, 1, 1, 1, 0, 1,
                      1, 1, 1, 1, 1, 1, 1, 0>>,
     pattern |-> <<2, 1, 2, 1, 2, 1, 2, 1>>,
     ringBase |-> <<<<tokenNic(0), tokenGpu(0), tokenGpu(1), tokenGpu(2), tokenGpu(3), tokenGpu(4), tokenGpu(5), tokenGpu(6), tokenGpu(7), tokenNic(3)>>,
                    <<tokenNic(3), tokenGpu(7), tokenGpu(6), tokenGpu(5), tokenGpu(4), tokenGpu(3), tokenGpu(2), tokenGpu(1), tokenGpu(0), tokenNic(0)>>,
                    <<tokenNic(1), tokenGpu(2), tokenGpu(3), tokenGpu(0), tokenGpu(1), tokenGpu(6), tokenGpu(7), tokenGpu(4), tokenGpu(5), tokenNic(2)>>,
                    <<tokenNic(2), tokenGpu(5), tokenGpu(4), tokenGpu(7), tokenGpu(6), tokenGpu(1), tokenGpu(0), tokenGpu(3), tokenGpu(2), tokenNic(1)>>>>]

rome_model_66 ==
    [id |-> "rome_model_66", nGpus |-> 8, nCpus |-> 4, nNics |-> 8, nLinks |-> 7,
     gpuNuma |-> <<0, 0, 1, 1, 2, 2, 3, 3>>, nicNuma |-> <<0, 0, 1, 1, 2, 2, 3, 3>>,
     connMatrix |-> <<0, 1, 1, 1, 1, 1, 1, 1,
                      1, 0, 1, 1, 1, 1, 1, 1,
                      1, 1, 0, 1, 1, 1, 1, 1,
                      1, 1, 1, 0, 1, 1, 1, 1,
                      1, 1, 1, 1, 0, 1, 1, 1,
                      1, 1, 1, 1, 1, 0, 1, 1,
                      1, 1, 1, 1, 1, 1, 0, 1,
                      1, 1, 1, 1, 1, 1, 1, 0>>,
     pattern |-> <<2, 2, 2, 2, 2, 2, 2, 2>>,
     ringBase |-> <<<<tokenNic(0), tokenGpu(0), tokenGpu(1), tokenGpu(2), tokenGpu(3), tokenGpu(4), tokenGpu(5), tokenGpu(6), tokenGpu(7), tokenNic(7)>>,
                    <<tokenNic(7), tokenGpu(7), tokenGpu(6), tokenGpu(5), tokenGpu(4), tokenGpu(3), tokenGpu(2), tokenGpu(1), tokenGpu(0), tokenNic(0)>>,
                    <<tokenNic(1), tokenGpu(0), tokenGpu(2), tokenGpu(1), tokenGpu(3), tokenGpu(4), tokenGpu(6), tokenGpu(5), tokenGpu(7), tokenNic(6)>>,
                    <<tokenNic(6), tokenGpu(7), tokenGpu(5), tokenGpu(6), tokenGpu(4), tokenGpu(3), tokenGpu(1), tokenGpu(2), tokenGpu(0), tokenNic(1)>>,
                    <<tokenNic(2), tokenGpu(0), tokenGpu(3), tokenGpu(2), tokenGpu(1), tokenGpu(4), tokenGpu(7), tokenGpu(6), tokenGpu(5), tokenNic(5)>>,
                    <<tokenNic(5), tokenGpu(5), tokenGpu(6), tokenGpu(7), tokenGpu(4), tokenGpu(1), tokenGpu(2), tokenGpu(3), tokenGpu(0), tokenNic(2)>>,
                    <<tokenNic(3), tokenGpu(0), tokenGpu(1), tokenGpu(3), tokenGpu(2), tokenGpu(4), tokenGpu(5), tokenGpu(7), tokenGpu(6), tokenNic(4)>>,
                    <<tokenNic(4), tokenGpu(6), tokenGpu(7), tokenGpu(5), tokenGpu(4), tokenGpu(2), tokenGpu(3), tokenGpu(1), tokenGpu(0), tokenNic(3)>>>>]

romeTopoModels ==
    <<rome_model_22,
      rome_model_25,
      rome_model_29,
      rome_model_52,
      rome_model_53,
      rome_model_43,
      rome_model_55,
      rome_model_56,
      rome_model_58,
      rome_model_59,
      rome_model_62,
      rome_model_65,
      rome_model_66>>

MAX_PERMUTE_TIME == 100000

\* The decimal digits of n, as template-literal interpolation prints them.
RECURSIVE Digits(_)
Digits(n) == IF n < 10 THEN <<n>> ELSE Digits(n \div 10) \o <<n % 10>>

\* The partial-mesh branch of extractTopology: the loop over j for row i.
RECURSIVE partialMeshRow(_, _, _, _, _, _)
partialMeshRow(conn, nGpus, nLinks, i, j, linksUsed) ==
    IF ~ (j < nGpus /\ linksUsed < nLinks) THEN conn
    ELSE IF i # j /\ conn[i * nGpus + j + 1] = 0
    THEN partialMeshRow([conn EXCEPT ![i * nGpus + j + 1] = 1, ![j * nGpus + i + 1] = 1],
                        nGpus, nLinks, i, j + 1, linksUsed + 1)
    ELSE partialMeshRow(conn, nGpus, nLinks, i, j + 1, linksUsed)

RECURSIVE partialMesh(_, _, _, _)
partialMesh(conn, nGpus, nLinks, i) ==
    IF i >= nGpus THEN conn
    ELSE partialMesh(partialMeshRow(conn, nGpus, nLinks, i, 0, 0), nGpus, nLinks, i + 1)

RECURSIVE patternDigits(_, _, _)
patternDigits(gpuNuma, nicNuma, i) ==
    IF i < 0 THEN <<>>
    ELSE patternDigits(gpuNuma, nicNuma, i - 1)
         \o Digits(Cardinality({k \in 1..Len(gpuNuma) : gpuNuma[k] = i}))
         \o Digits(Cardinality({k \in 1..Len(nicNuma) : nicNuma[k] = i}))

extractTopology(config) ==
    LET nGpus == config.gpu.count
        nCpus == config.cpu.count
        nNics == config.nic.count
        nLinks == Min(config.gpu.nvlinksPerPair, nGpus - 1)
        gpuNuma == SubSeq(config.numaMapping, 1, Min(nGpus, Len(config.numaMapping)))
        nicNuma == [i \in 1..nNics |-> (i - 1) % nCpus]
        connMatrix == IF nLinks >= nGpus - 1
                      THEN [k \in 1..(nGpus * nGpus) |->
                               IF (k - 1) \div nGpus # (k - 1) % nGpus THEN 1 ELSE 0]
                      ELSE partialMesh([k \in 1..(nGpus * nGpus) |-> 0], nGpus, nLinks, 0)
    IN  [nGpus |-> nGpus, nCpus |-> nCpus, nNics |-> nNics, nLinks |-> nLinks,
         gpuNuma |-> gpuNuma, nicNuma |-> nicNuma, connMatrix |-> connMatrix,
         pattern |-> patternDigits(gpuNuma, nicNuma, nCpus - 1)]

swapAt(perm, a, b) == [perm EXCEPT ![a + 1] = perm[b + 1], ![b + 1] = perm[a + 1]]

\* The base case of permuteGpuIds: NUMA assignment and connectivity matrix.
gpuPermMatches(perm, ref, topo) ==
    /\ \A i \in 0..(ref.nGpus - 1) :
           /\ perm[i + 1] + 1 <= Len(topo.gpuNuma)
           /\ ref.gpuNuma[i + 1] = topo.gpuNuma[perm[i + 1] + 1]
    /\ \A i \in 0..(ref.nGpus - 1) : \A j \in 0..(ref.nGpus - 1) :
           ref.connMatrix[i * ref.nGpus + j + 1]
               = topo.connMatrix[perm[i + 1] * ref.nGpus + perm[j + 1] + 1]

\* permuteGpuIds and its swap loop; both return [ok, perm, count], perm
\* being the array as the call leaves it.
RECURSIVE permuteGpuIds(_, _, _, _, _, _)
RECURSIVE permuteGpuLoop(_, _, _, _, _, _, _)
permuteGpuIds(perm, pos, last, ref, topo, count) ==
    IF count + 1 > MAX_PERMUTE_TIME THEN [ok |-> FALSE, perm |-> perm, count |-> count + 1]
    ELSE IF pos = last
    THEN [ok |-> gpuPermMatches(perm, ref, topo), perm |-> perm, count |-> count + 1]
    ELSE permuteGpuLoop(perm, pos, pos, last, ref, topo, count + 1)

\* permuteGpuLoop without the swap back after a failed recursive call.
permuteGpuLoopKeepingSwap(perm, pos, i, last, ref, topo, count) ==
    IF i > last THEN [ok |-> FALSE, perm |-> perm, count |-> count]
    ELSE LET r == permuteGpuIds(swapAt(perm, pos, i), pos + 1, last, ref, topo, count)
         IN  IF r.ok THEN r
             ELSE permuteGpuLoop(r.perm, pos, i + 1, last, ref, topo, r.count)

permuteGpuLoop(perm, pos, i, last, ref, topo, count) ==
    IF i > last THEN [ok |-> FALSE, perm |-> perm, count |-> count]
    ELSE LET tmp == perm[pos + 1]
             r == permuteGpuIds(swapAt(perm, pos, i), pos + 1, last, ref, topo, count)
         IN  IF r.ok THEN r
             ELSE permuteGpuLoop([r.perm EXCEPT ![i + 1] = r.perm[pos + 1], ![pos + 1] = tmp],
                                 pos, i + 1, last, ref, topo, r.count)

nicPermMatches(perm, ref, topo) ==
    \A i \in 0..(ref.nNics - 1) : ref.nicNuma[i + 1] = topo.nicNuma[perm[i + 1] + 1]

RECURSIVE permuteNetIds(_, _, _, _, _, _)
RECURSIVE permuteNetLoop(_, _, _, _, _, _, _)
permuteNetIds(perm, pos, last, ref, topo, count) ==
    IF count + 1 > MAX_PERMUTE_TIME THEN [ok |-> FALSE, perm |-> perm, count |-> count + 1]
    ELSE IF pos = last
    THEN [ok |-> nicPermMatches(perm, ref, topo), perm |-> perm, count |-> count + 1]
    ELSE permuteNetLoop(perm, pos, pos, last, ref, topo, count + 1)

permuteNetLoop(perm, pos, i, last, ref, topo, count) ==
    IF i > last THEN [ok |-> FALSE, perm |-> perm, count |-> count]
    ELSE LET r == permuteNetIds(swapAt(perm, pos, i), pos + 1, last, ref, topo, count)
         IN  IF r.ok THEN r
             ELSE permuteNetLoop(perm, pos, i + 1, last, ref, topo, r.count)

\* parseRingBase: NIC tokens dropped, model GPU index mapped through the
\* permutation, empty rings dropped.
parseRingBase(ringBase, gpuPermutation) ==
    LET gpuOrder(tokens) ==
            LET kept == SelectSeq(tokens, LAMBDA t : ~ t.nic)
            IN  [k \in 1..Len(kept) |-> gpuId(gpuPermutation[kept[k].idx + 1])]
        rings == [r \in 1..Len(ringBase) |-> gpuOrder(ringBase[r])]
    IN  SelectSeq(rings, LAMBDA ring : Len(ring) > 0)

NoMatch == <<>>

\* romeRingGraph with the channel bandwidth taken as twice the largest path bandwidth.
romeRingGraphOverrated(model, system, rings) ==
    LET ringBw == 2 * system.maxBw
        channels == [idx \in 1..Len(rings) |-> mkChannel(idx - 1, ringBw, rings[idx])]
    IN  [id |-> [kind |-> "rome-match", model |-> model.id],
         pattern |-> NCCL_TOPO_PATTERN_RING, nChannels |-> Len(channels),
         channels |-> channels, speedIntra |-> ringBw, speedInter |-> 0,
         typeIntra |-> LINK_NVL, typeInter |-> LINK_NET]

\* The ring graph matchRomeModel builds from a matched model.
romeRingGraph(model, system, rings) ==
    LET gpus == nodesOfType(system, NODE_GPU)
        firstBw == IF /\ Len(gpus) >= 2
                      /\ Len(rings) > 0
                      /\ Len(rings[1]) >= 2
                      /\ hasPath(system.paths, rings[1][1], rings[1][2])
                   THEN system.paths[pathKey(rings[1][1], rings[1][2])].bandwidth
                   ELSE 0
        ringBw == IF firstBw = 0 THEN system.maxBw ELSE firstBw
        channels == [idx \in 1..Len(rings) |-> mkChannel(idx - 1, ringBw, rings[idx])]
    IN  [id |-> [kind |-> "rome-match", model |-> model.id],
         pattern |-> NCCL_TOPO_PATTERN_RING, nChannels |-> Len(channels),
         channels |-> channels, speedIntra |-> ringBw, speedInter |-> 0,
         typeIntra |-> LINK_NVL, typeInter |-> LINK_NET]

\* The loop of matchRomeModel over the registry models; returns [match, emits].
\* tryModel is the loop body for one model, gpuPermuted the body once the
\* GPU permutation search has returned gpuRes, and nicPermuted the body once
\* the NIC permutation search has returned nicRes.
RECURSIVE matchModels(_, _, _, _, _)
RECURSIVE tryModel(_, _, _, _, _, _)
RECURSIVE gpuPermuted(_, _, _, _, _, _, _)
RECURSIVE nicPermuted(_, _, _, _, _, _, _, _)
matchModels(models, topo, system, mi, emits) ==
    IF mi > Len(models)
    THEN [match |-> NoMatch,
          emits |-> emits \o <<Emit("romeModelMatch", "No Rome model matched",
                                    <<Len(models)>>, <<>>)>>]
    ELSE tryModel(models, topo, system, mi, emits, models[mi])

tryModel(models, topo, system, mi, emits, model) ==
    IF \/ model.nGpus # topo.nGpus
       \/ model.nCpus # topo.nCpus
       \/ model.nNics # topo.nNics
       \/ model.nLinks # topo.nLinks
       \/ model.pattern # topo.pattern
    THEN matchModels(models, topo, system, mi + 1, emits)
    ELSE gpuPermuted(models, topo, system, mi,
                     emits \o <<Emit("romeModelMatch", "Trying model", <<model.id, mi - 1>>, <<>>)>>,
                     model,
                     permuteGpuIds([i \in 1..topo.nGpus |-> i - 1], 0,
                                   topo.nGpus - 1, model, topo, 0))

gpuPermuted(models, topo, system, mi, emits, model, gpuRes) ==
    IF ~ gpuRes.ok
    THEN matchModels(models, topo, system, mi + 1,
             emits \o <<Emit("romeModelMatch", "GPU permutation failed",
                             <<model.id, gpuRes.count>>, <<>>)>>)
    ELSE nicPermuted(models, topo, system, mi, emits, model, gpuRes,
                     IF topo.nNics > 0
                     THEN permuteNetIds([i \in 1..topo.nNics |-> i - 1], 0,
                                        topo.nNics - 1, model, topo, 0)
                     ELSE [ok |-> TRUE, perm |-> <<>>, count |-> 0])

nicPermuted(models, topo, system, mi, emits, model, gpuRes, nicRes) ==
    IF ~ nicRes.ok
    THEN matchModels(models, topo, system, mi + 1,
             emits \o <<Emit("romeModelMatch", "NIC permutation failed",
                             <<model.id, nicRes.count>>, <<>>)>>)
    ELSE LET rings == parseRingBase(model.ringBase, gpuRes.perm)
             ringGraph == romeRingGraph(model, system, rings)
         IN  [match |-> <<[model |-> model, gpuPermutation |-> gpuRes.perm,
                           nicPermutation |-> nicRes.perm,
                           ringGraph |-> ringGraph]>>,
              emits |-> emits \o
                  <<Emit("romeModelMatch", "Model matched", <<model.id>>,
                         <<gpuRes.perm, nicRes.perm>>),
                    Emit("romeModelMatch", "Parsed pre-computed rings", rings,
                         <<Len(rings)>>),
                    Emit("romeModelMatch", "Rome model ring graph",
                         <<ringGraph.nChannels, ringGraph.speedIntra>>,
                         <<ringGraph.nChannels, ringGraph.speedIntra>>)>>]

\* matchRomeModel on the topology topo it extracted from the configuration.
matchTopology(topo, system) ==
    matchModels(romeTopoModels, topo, system, 1,
        <<Emit("romeModelMatch", "Attempting Rome model match",
               <<topo.nGpus, topo.nCpus, topo.nNics, topo.nLinks, topo.pattern,
                 Cardinality({k \in 1..Len(topo.connMatrix) : topo.connMatrix[k] > 0})>>,
               <<topo.gpuNuma, topo.nicNuma>>)>>)

matchRomeModel(config, system, env) ==
    IF getEnvInt(env, "RCCL_MODEL_MATCHING_DISABLE") = 1
    THEN [match |-> NoMatch,
          emits |-> <<Emit("romeModelMatch", "Rome model matching disabled", <<>>, <<>>)>>]
    ELSE matchTopology(extractTopology(config), system)

\* Bitwise operators on naturals, as JavaScript's &, | and ^ compute them.
RECURSIVE BitAnd(_, _)
BitAnd(a, b) ==
    IF a = 0 \/ b = 0 THEN 0
    ELSE 2 * BitAnd(a \div 2, b \div 2) + (IF a % 2 = 1 /\ b % 2 = 1 THEN 1 ELSE 0)

RECURSIVE BitOr(_, _)
BitOr(a, b) ==
    IF a = 0 THEN b
    ELSE IF b = 0 THEN a
    ELSE 2 * BitOr(a \div 2, b \div 2) + (IF a % 2 = 1 \/ b % 2 = 1 THEN 1 ELSE 0)

RECURSIVE BitXor(_, _)
BitXor(a, b) ==
    IF a = 0 THEN b
    ELSE IF b = 0 THEN a
    ELSE 2 * BitXor(a \div 2, b \div 2) + (IF a % 2 # b % 2 THEN 1 ELSE 0)

\* The first loop of getBtree: the lowest set bit of rank, or the first
\* power of two that is not below nRanks.
RECURSIVE firstSetBit(_, _, _)
firstSetBit(bit, nRanks, rank) ==
    IF bit < nRanks /\ BitAnd(bit, rank) = 0 THEN firstSetBit(2 * bit, nRanks, rank) ELSE bit

\* The last loop of getBtree: halve lowbit until the second child is a rank.
RECURSIVE secondChild(_, _, _)
secondChild(lowbit, nRanks, rank) ==
    LET down1 == IF lowbit = 0 THEN -1 ELSE rank + lowbit
    IN  IF down1 >= nRanks THEN secondChild(lowbit \div 2, nRanks, rank) ELSE down1

\* What getBtree returns once its first loop has stopped at bit.
btreeAtBit(nRanks, rank, bit) ==
    IF rank = 0
    THEN [up |-> -1, down0 |-> -1, down1 |-> IF nRanks > 1 THEN bit \div 2 ELSE -1]
    ELSE LET up0 == BitOr(BitXor(rank, bit), 2 * bit)
             lowbit == bit \div 2
         IN  [up |-> IF up0 >= nRanks THEN BitXor(rank, bit) ELSE up0,
              down0 |-> IF lowbit = 0 THEN -1 ELSE rank - lowbit,
              down1 |-> secondChild(lowbit, nRanks, rank)]

getBtree(nRanks, rank) ==
    IF nRanks < 1 THEN [up |-> -1, down0 |-> -1, down1 |-> -1]
    ELSE btreeAtBit(nRanks, rank, firstSetBit(1, nRanks, rank))

\* tree1 of ncclGetDtree for an even nRanks, from the tree of the mirror rank.
mirrorTree(nRanks, mirrorResult) ==
    [up |-> IF mirrorResult.up = -1 THEN -1 ELSE nRanks - 1 - mirrorResult.up,
     down0 |-> IF mirrorResult.down0 = -1 THEN -1 ELSE nRanks - 1 - mirrorResult.down0,
     down1 |-> IF mirrorResult.down1 = -1 THEN -1 ELSE nRanks - 1 - mirrorResult.down1]

\* tree1 of ncclGetDtree for an odd nRanks, from the tree of the shifted rank.
shiftTree(nRanks, shiftResult) ==
    [up |-> IF shiftResult.up = -1 THEN -1 ELSE (shiftResult.up + 1) % nRanks,
     down0 |-> IF shiftResult.down0 = -1 THEN -1 ELSE (shiftResult.down0 + 1) % nRanks,
     down1 |-> IF shiftResult.down1 = -1 THEN -1 ELSE (shiftResult.down1 + 1) % nRanks]

ncclGetDtree(nRanks, rank) ==
    [tree0 |-> getBtree(nRanks, rank),
     tree1 |-> IF nRanks % 2 = 0
               THEN mirrorTree(nRanks, getBtree(nRanks, nRanks - 1 - rank))
               ELSE shiftTree(nRanks, getBtree(nRanks, (rank - 1 + nRanks) % nRanks))]

mkTreeLink(parentId, childId) == [parentId |-> parentId, childId |-> childId]

\* buildChain: the chain of a ring order; treeUp and treeDown are the maps.
buildChain(order) ==
    [treeLinks |-> [i \in 1..(Len(order) - 1) |-> mkTreeLink(order[i], order[i + 1])],
     treeUp |-> [id \in {order[i] : i \in 2..Len(order)} |->
                    order[(CHOOSE i \in 2..Len(order) :
                               order[i] = id /\ \A k \in (i + 1)..Len(order) : order[k] # id) - 1]],
     treeDown |-> [id \in {order[i] : i \in 1..(Len(order) - 1)} |->
                      <<order[(CHOOSE i \in 1..(Len(order) - 1) :
                                   order[i] = id /\ \A k \in (i + 1)..(Len(order) - 1) :
                                       order[k] # id) + 1]>>]]

\* buildTreeGraph; returns [graph, emits].
buildTreeGraph(ringGraph, nRanks) ==
    LET channels == [k \in 1..ringGraph.nChannels |->
                        LET ringChannel == ringGraph.channels[k]
                            chain == buildChain(ringChannel.ringOrder)
                        IN  [id |-> k - 1, bandwidth |-> ringChannel.bandwidth,
                             ringOrder |-> ringChannel.ringOrder,
                             treeLinks |-> chain.treeLinks, treeUp |-> chain.treeUp,
                             treeDown |-> chain.treeDown]]
        totalTreeLinks == SumRange([k \in 1..Len(channels) |-> Len(channels[k].treeLinks)],
                                   1, Len(channels))
    IN  [graph |-> [id |-> [kind |-> "tree"], pattern |-> NCCL_TOPO_PATTERN_BALANCED_TREE,
                    nChannels |-> Len(channels), channels |-> channels,
                    speedIntra |-> ringGraph.speedIntra, speedInter |-> ringGraph.speedInter,
                    typeIntra |-> ringGraph.typeIntra, typeInter |-> ringGraph.typeInter],
         emits |-> <<Emit("treeSearch", "Building tree graph from ring graph",
                          <<ringGraph.nChannels, nRanks>>, <<nRanks, ringGraph.nChannels>>),
                     Emit("treeSearch", "Tree graph built", <<Len(channels), nRanks>>,
                          <<Len(channels), totalTreeLinks>>)>>]

\* ringNext with the ring left open: the last GPU leads to itself.
ringNextOpen(order) ==
    [id \in Range(order) |->
        order[Min(Len(order),
                  (CHOOSE i \in 1..Len(order) :
                       order[i] = id /\ \A k \in (i + 1)..Len(order) : order[k] # id) + 1)]]

\* The prev/next maps of a ring order (later positions overwrite earlier ones).
ringNext(order) ==
    [id \in Range(order) |->
        order[((CHOOSE i \in 1..Len(order) :
                    order[i] = id /\ \A k \in (i + 1)..Len(order) : order[k] # id)
               % Len(order)) + 1]]

ringPrev(order) ==
    [id \in Range(order) |->
        order[(((CHOOSE i \in 1..Len(order) :
                     order[i] = id /\ \A k \in (i + 1)..Len(order) : order[k] # id)
                - 2 + Len(order)) % Len(order)) + 1]]

wireRing(channel) ==
    IF Len(channel.ringOrder) = 0 THEN channel
    ELSE [ringPrev |-> ringPrev(channel.ringOrder), ringNext |-> ringNext(channel.ringOrder)]
         @@ channel

\* setupRings; returns [graph, emits].
setupRings(graph) ==
    [graph |-> [graph EXCEPT !.channels = [k \in 1..graph.nChannels |-> wireRing(graph.channels[k])]],
     emits |-> <<Emit("channelSetup", "Setting up ring connections", <<graph.nChannels>>,
                      <<graph.nChannels>>)>>
               \o [k \in 1..graph.nChannels |->
                      IF Len(graph.channels[k].ringOrder) = 0
                      THEN Emit("channelSetup", "Channel: empty ring order, skipping", <<k - 1>>, <<>>)
                      ELSE Emit("channelSetup", "Channel: ring wired",
                                <<k - 1, Len(graph.channels[k].ringOrder)>>,
                                graph.channels[k].ringOrder)]
               \o <<Emit("channelSetup", "Ring setup complete", <<graph.nChannels>>, <<>>)>>]

\* The links and maps setupChannels derives from one tree of ncclGetDtree;
\* t maps each rank to its up, down0 and down1.
dtreeLinks(nRanks, t) ==
    LET withUp == SelectSeq([k \in 1..nRanks |-> k - 1], LAMBDA rank : t[rank].up # -1)
        children(rank) ==
            (IF t[rank].down0 # -1 THEN <<gpuId(t[rank].down0)>> ELSE <<>>)
            \o (IF t[rank].down1 # -1 THEN <<gpuId(t[rank].down1)>> ELSE <<>>)
    IN  [treeLinks |-> [k \in 1..Len(withUp) |->
                           mkTreeLink(gpuId(t[withUp[k]].up), gpuId(withUp[k]))],
         treeUp |-> [id \in {gpuId(withUp[k]) : k \in 1..Len(withUp)} |-> gpuId(t[id[2]].up)],
         treeDown |-> [id \in {gpuId(rank) : rank \in {r \in 0..(nRanks - 1) :
                                                          Len(children(r)) > 0}} |->
                          children(id[2])]]

\* The links and maps of one of the two trees of ncclGetDtree over the ranks
\* gpu-0 .. gpu-(nRanks-1); which is "tree0" or "tree1".
dtreeChannel(nRanks, which) ==
    dtreeLinks(nRanks, [rank \in 0..(nRanks - 1) |-> ncclGetDtree(nRanks, rank)[which]])

\* setupChannels without the doubling of the tree channels.
setupChannelsUndoubled(system, ringGraph, treeGraph) ==
    [ringGraph |-> ringGraph, treeGraph |-> treeGraph, emits |-> <<>>]

\* The doubled tree channels of setupChannels: channel 2c takes tree0 and
\* channel 2c+1 takes tree1.
doubledTreeChannels(treeGraph, tree0, tree1) ==
    [k \in 1..(2 * treeGraph.nChannels) |->
        LET srcChannel == treeGraph.channels[(k + 1) \div 2]
            tree == IF k % 2 = 1 THEN tree0 ELSE tree1
        IN  [id |-> k - 1, bandwidth |-> srcChannel.bandwidth,
             ringOrder |-> srcChannel.ringOrder, treeLinks |-> tree.treeLinks,
             treeUp |-> tree.treeUp, treeDown |-> tree.treeDown]]

\* The graphs and log entries setupChannels returns for its doubled channels.
connectedGraphs(ringGraph, treeGraph, nRanks, doubled) ==
    [ringGraph |-> [ringGraph EXCEPT !.channels =
                        [k \in 1..ringGraph.nChannels |-> wireRing(ringGraph.channels[k])]],
     treeGraph |-> [id |-> [kind |-> "tree-doubled"],
                    pattern |-> NCCL_TOPO_PATTERN_BALANCED_TREE,
                    nChannels |-> Len(doubled),
                    channels |-> doubled,
                    speedIntra |-> treeGraph.speedIntra, speedInter |-> treeGraph.speedInter,
                    typeIntra |-> treeGraph.typeIntra, typeInter |-> treeGraph.typeInter],
     emits |-> <<Emit("channelSetup", "Setting up channels (connect.cc)",
                      <<ringGraph.nChannels, treeGraph.nChannels>>,
                      <<ringGraph.nChannels, treeGraph.nChannels>>),
                 Emit("channelSetup", "Ring connections set", <<ringGraph.nChannels>>, <<>>),
                 Emit("channelSetup", "Tree channels doubled",
                      <<treeGraph.nChannels, Len(doubled)>>,
                      <<treeGraph.nChannels, Len(doubled), nRanks>>),
                 Emit("channelSetup", "Channel setup complete",
                      <<ringGraph.nChannels, Len(doubled), nRanks>>,
                      <<ringGraph.nChannels, Len(doubled), nRanks>>)>>]

\* setupChannels; returns [ringGraph, treeGraph, emits].
setupChannels(system, ringGraph, treeGraph) ==
    LET nRanks == IF Len(ringGraph.channels) > 0 THEN Len(ringGraph.channels[1].ringOrder) ELSE 0
    IN  connectedGraphs(ringGraph, treeGraph, nRanks,
            doubledTreeChannels(treeGraph, dtreeChannel(nRanks, "tree0"),
                                dtreeChannel(nRanks, "tree1")))

isRcclMode(config) == config.gpu.type \in DOMAIN gpuTypeToGcnArch

\* The channel bounds runInit resolves from the two option values.
resolveMinChannels(minOpt) ==
    LET minChannels == IF minOpt < 0 THEN 1 ELSE minOpt
    IN  Max(1, Min(minChannels, MAXCHANNELS))

\* resolveMaxChannels without the repair that keeps the maximum at or above the minimum.
resolveMaxChannelsUnrepaired(minOpt, maxOpt) ==
    Min(IF maxOpt < 0 THEN MAXCHANNELS ELSE maxOpt, MAXCHANNELS)

resolveMaxChannels(minOpt, maxOpt) ==
    LET maxChannels == IF maxOpt < 0 THEN MAXCHANNELS ELSE maxOpt
    IN  Max(resolveMinChannels(minOpt), Min(maxChannels, MAXCHANNELS))

\* x || y on numbers.
orElse(x, y) == IF x # 0 THEN x ELSE y

\* The three entries buildTopoSystem writes to the decision log.
buildEmits(config, built) ==
    <<Emit("topoGetSystem", "Created GPU nodes", <<config.gpu.count>>,
           <<config.gpu.type, config.gpu.cudaCompCap>>),
      IF config.nvswitch.count > 0
      THEN Emit("topoGetSystem", "Created NVSwitch topology",
                <<config.nvswitch.count, nvlinkBw(config.gpu.cudaCompCap)>>, <<>>)
      ELSE IF isAmdGpu(config.gpu.type)
      THEN Emit("topoGetSystem", "Created xGMI mesh topology",
                <<config.gpu.type, xgmiWidth(gpuTypeToGcnArch[config.gpu.type])>>, <<>>)
      ELSE IF config.gpu.nvlinksPerPair > 0
      THEN Emit("topoGetSystem", "Created NVLink mesh topology",
                <<config.gpu.nvlinksPerPair, nvlinkBw(config.gpu.cudaCompCap)>>, <<>>)
      ELSE Emit("topoGetSystem", "No GPU-to-GPU direct links", <<>>, <<>>),
      Emit("topoGetSystem", "Topology system built", <<Len(built.nodes), Len(built.links)>>,
           <<built.maxBw, built.totalBw>>)>>

(***************************************************************************)
(* createMultiNodeTopology (multi-node.ts). A scale unit is optional: it   *)
(* is NullValue or <<[serverCount, railCount, networkType]>>. The identity *)
(* `s<s>-<id>` is the identity <<kind, index>> behind the pair <<"s", s>>, *)
(* and `net-<sw>` is <<"net", sw>>.                                        *)
(***************************************************************************)
prefixId(s, id) == <<"s", s>> \o id

netId(sw) == <<"net", sw>>

\* remappedNodes of server s: the identity is prefixed, a GPU's rank is
\* moved by s * config.gpu.count.
remapNode(config, s, node) ==
    IF node.type = NODE_GPU
    THEN [node EXCEPT !.id = prefixId(s, node.id),
                      !.gpu = [node.gpu EXCEPT !.rank = node.gpu.rank + s * config.gpu.count]]
    ELSE [node EXCEPT !.id = prefixId(s, node.id)]

\* remappedLinks of server s.
remapLink(s, link) ==
    [link EXCEPT !.fromId = prefixId(s, link.fromId), !.toId = prefixId(s, link.toId)]

\* 1. The nodes and the links of the servers, server after server.
serverNodes(config, serverSystem, serverCount) ==
    [k \in 1..(serverCount * Len(serverSystem.nodes)) |->
        remapNode(config, (k - 1) \div Len(serverSystem.nodes),
                  serverSystem.nodes[((k - 1) % Len(serverSystem.nodes)) + 1])]

serverLinks(serverSystem, serverCount) ==
    [k \in 1..(serverCount * Len(serverSystem.links)) |->
        remapLink((k - 1) \div Len(serverSystem.links),
                  serverSystem.links[((k - 1) % Len(serverSystem.links)) + 1])]

\* nSwitches as if every network were a fat tree.
nSwitchesOfFatTree(su) == 1

\* 2. The network switch nodes.
nSwitchesOf(su) == IF su.networkType = "rail-optimized" THEN su.railCount ELSE 1

switchNodes(su) ==
    [sw \in 1..nSwitchesOf(su) |-> [id |-> netId(sw - 1), type |-> NODE_NET, index |-> sw - 1]]

\* The NIC -> switch links alone.
nicNetLinksOneWay(config, su) ==
    [k \in 1..(su.serverCount * config.nic.count) |->
        LET s == (k - 1) \div config.nic.count
            n == (k - 1) % config.nic.count
        IN  mkLink(prefixId(s, nicId(n)),
                   IF su.networkType = "rail-optimized"
                   THEN netId(n % su.railCount) ELSE netId(0),
                   LINK_NET, config.nic.speed)]

\* 3. For each server, for each NIC n, the pair NIC -> switch, switch -> NIC.
nicNetLinks(config, su) ==
    [k \in 1..(2 * su.serverCount * config.nic.count) |->
        LET s == (k - 1) \div (2 * config.nic.count)
            n == ((k - 1) % (2 * config.nic.count)) \div 2
            nic == prefixId(s, nicId(n))
            switchId == IF su.networkType = "rail-optimized"
                        THEN netId(n % su.railCount) ELSE netId(0)
        IN  IF (k - 1) % 2 = 0
            THEN mkLink(nic, switchId, LINK_NET, config.nic.speed)
            ELSE mkLink(switchId, nic, LINK_NET, config.nic.speed)]

\* 4-6. The assembled system and what the caller's log receives (the logs of
\* the per-server builds are discarded).
multiNodeSystem(nodes, links) ==
    [nodes |-> nodes, links |-> links, paths |-> EmptyPaths,
     maxBw |-> maxLinkBw(links), totalBw |-> totalLinkBw(links), inter |-> TRUE,
     nodesByType |-> groupByType(nodes)]

multiNodeEmits(su, built) ==
    <<Emit("topoGetSystem", "Building multi-node topology",
           <<su.serverCount, su.railCount, su.networkType>>,
           <<su.serverCount, su.railCount, su.networkType>>),
      Emit("topoGetSystem", "Created network switch(es)",
           <<nSwitchesOf(su), su.networkType>>, <<nSwitchesOf(su), su.networkType>>),
      Emit("topoGetSystem", "Multi-node topology built",
           <<Len(built.nodes), Len(built.links), su.serverCount,
             Len(nodesOfType(built, NODE_GPU)), Len(nodesOfType(built, NODE_NIC)),
             nSwitchesOf(su)>>,
           <<Len(built.nodes), Len(built.links), su.serverCount, built.maxBw,
             built.totalBw>>)>>

multiNodeBuilt(su, built) == [system |-> built, emits |-> multiNodeEmits(su, built)]

singleBuilt(config, built) == [system |-> built, emits |-> buildEmits(config, built)]

\* Returns [system, emits].
createMultiNodeTopology(config, su) ==
    IF su.serverCount <= 1
    THEN singleBuilt(config, buildTopoSystem(config))
    ELSE multiNodeBuilt(su,
             multiNodeSystem(
                 serverNodes(config, buildTopoSystem(config), su.serverCount)
                     \o switchNodes(su),
                 serverLinks(buildTopoSystem(config), su.serverCount)
                     \o nicNetLinks(config, su)))

\* suConfig && suConfig.serverCount > 1
isMultiNode(su) == su # NullValue /\ su[1].serverCount > 1

\* The graphs of the multi-node fast path.
emptyRing ==
    [id |-> [kind |-> "ring-multi-deferred"], pattern |-> NCCL_TOPO_PATTERN_RING, nChannels |-> 0,
     channels |-> <<>>, speedIntra |-> 0, speedInter |-> 0, typeIntra |-> 0, typeInter |-> 0]

emptyTree ==
    [id |-> [kind |-> "tree-multi-deferred"], pattern |-> NCCL_TOPO_PATTERN_BALANCED_TREE,
     nChannels |-> 0, channels |-> <<>>, speedIntra |-> 0, speedInter |-> 0,
     typeIntra |-> 0, typeInter |-> 0]

(***************************************************************************)
(* The inputs of a run                                                     *)
(***************************************************************************)
\* The largest GPU count of the small hardware descriptions.
MaxGpus == 3

\* The largest value the clock reaches.
MaxClock == 1

\* A hardware description of the small family. wiring is "pcie" (no direct
\* GPU links), "nvlink" (a mesh of two links per pair) or "nvswitch" (one
\* switch); numa is "valid" (GPU i on CPU i mod cpu.count) or "invalid"
\* (every GPU on the CPU index cpu.count, which does not exist).
smallConfig(gpuType, n, wiring, nCpus, numa) ==
    [gpu |-> [count |-> n, type |-> gpuType,
              cudaCompCap |-> IF isAmdGpu(gpuType) THEN 0 ELSE 90,
              nvlinksPerPair |-> IF wiring = "nvlink" THEN 2 ELSE 0],
     cpu |-> [count |-> nCpus, arch |-> CPUArch_X86, vendor |-> CPUVendor_INTEL,
              model |-> IntelCPUModel_SRP],
     nic |-> [count |-> 1, speed |-> 5000],
     pcie |-> [gen |-> 5, width |-> 16, switchesPerCPU |-> 1],
     nvswitch |-> [count |-> IF wiring = "nvswitch" THEN 1 ELSE 0],
     numaMapping |-> [i \in 1..n |-> IF numa = "valid" THEN (i - 1) % nCpus ELSE nCpus]]

\* An eight-GPU AMD server with an all-to-all xGMI mesh, as the registry
\* describes them: two CPUs, four GPUs on each.
romeConfig(nNics) ==
    [gpu |-> [count |-> 8, type |-> "MI300X", cudaCompCap |-> 0, nvlinksPerPair |-> 7],
     cpu |-> [count |-> 2, arch |-> CPUArch_X86, vendor |-> CPUVendor_AMD, model |-> 3],
     nic |-> [count |-> nNics, speed |-> 5000],
     pcie |-> [gen |-> 5, width |-> 16, switchesPerCPU |-> 2],
     nvswitch |-> [count |-> 0],
     numaMapping |-> <<0, 0, 0, 0, 1, 1, 1, 1>>]

Configs ==
    {smallConfig("H100", n, wiring, nCpus, numa) :
        n \in 1..MaxGpus, wiring \in {"pcie", "nvlink", "nvswitch"}, nCpus \in {1, 2},
        numa \in {"valid", "invalid"}}
    \cup {smallConfig("MI300X", n, "pcie", 2, "valid") : n \in 1..MaxGpus}
    \cup {romeConfig(nNics) : nNics \in {0, 2}}

\* The option sets: nothing overridden, and both channel options overridden.
Envs ==
    {createDefaultEnvConfig}
    \cup {withOverrides([NCCL_MIN_NCHANNELS |-> c, NCCL_MAX_NCHANNELS |-> c]) : c \in {1, 2}}

\* Whether a hardware description is inside the documented input domain.
validConfig(config) ==
    /\ Len(config.numaMapping) = config.gpu.count
    /\ \A i \in 1..Len(config.numaMapping) :
           config.numaMapping[i] >= 0 /\ config.numaMapping[i] < config.cpu.count

(***************************************************************************)
(* runInit (init.ts) as a state machine: one step per stage of the         *)
(* pipeline, run twice on the same input with the clock advancing between  *)
(* the two runs. A run reads the clock as one value: it is over before the *)
(* clock's resolution lets it advance.                                     *)
(***************************************************************************)
VARIABLES
    pc,             \* the stage runInit is about to execute
    run,            \* 1 or 2: which of the two runs is executing
    config,         \* the hardware description
    env,            \* the option set
    system,         \* the TopoSystem, NoSystem before it is built
    minChannels,    \* the resolved channel bounds, 0 before they are resolved
    maxChannels,
    ringGraph,      \* the ring graph, NoGraph before the ring stage
    treeGraph,      \* the tree graph, NoGraph before the tree stage
    romeModelMatch, \* the matched model id, NullValue if none
    log,            \* the DecisionLog entries
    now,            \* the value Date.now() returns
    first,          \* the result of the first run once the second has begun
    suConfig,       \* the scale unit runInit is given, NullValue if none
    snapshot,       \* what a caller of getEntries holds, NoSnapshot before the call
    attempt,        \* one call of searchForChannels in progress, NoAttempt if none
    frame           \* one call examined step by step, NoFrame if none: a relaxation
                    \* of spfaFromSource, the loops of ncclTopoCompute or the
                    \* recursion of permuteGpuIds

vars == <<pc, run, config, env, system, minChannels, maxChannels, ringGraph, treeGraph,
          romeModelMatch, log, now, first, suConfig, snapshot, attempt, frame>>

NoSystem == <<>>
NoGraph == <<>>
NoPlan == <<>>
NoSnapshot == <<>>
NoAttempt == <<>>
NoFrame == <<>>

\* DecisionLog.emit for a batch of entries: step numbers continue the log,
\* each entry is stamped with the clock.
emitAll(entries, emits, clock) ==
    entries \o [k \in 1..Len(emits) |->
                   [step |-> Len(entries) + k - 1, phase |-> emits[k].phase,
                    action |-> emits[k].action, reason |-> emits[k].reason,
                    data |-> emits[k].data, timestamp |-> clock]]

Init ==
    /\ pc = "build"
    /\ run = 1
    /\ config \in Configs
    /\ env \in Envs
    /\ system = NoSystem
    /\ minChannels = 0
    /\ maxChannels = 0
    /\ ringGraph = NoGraph
    /\ treeGraph = NoGraph
    /\ romeModelMatch = NullValue
    /\ log = <<>>
    /\ now = 0
    /\ first = NoPlan
    /\ suConfig = NullValue
    /\ snapshot = NoSnapshot
    /\ attempt = NoAttempt
    /\ frame = NoFrame

\* runInit up to and including Step 1, and to its end on the multi-node fast
\* path.
BuildSystem ==
    /\ pc = "build"
    /\ \E built \in {IF isMultiNode(suConfig)
                      THEN createMultiNodeTopology(config, suConfig[1])
                      ELSE singleBuilt(config, buildTopoSystem(config))} :
           /\ system' = built.system
           /\ log' = emitAll(log,
                        <<Emit("searchInit", "Starting topology initialization",
                               <<isRcclMode(config), config.gpu.count, config.gpu.type,
                                 config.cpu.count, config.nic.count>>, <<>>),
                          Emit("searchInit", "Step 1: Building topology system",
                               IF isMultiNode(suConfig)
                               THEN <<suConfig[1].serverCount, suConfig[1].railCount>>
                               ELSE <<>>, <<>>)>>
                        \o built.emits
                        \o IF isMultiNode(suConfig)
                           THEN <<Emit("searchInit", "Multi-node fast path",
                                       <<suConfig[1].serverCount>>,
                                       <<suConfig[1].serverCount, Len(built.system.nodes),
                                         Len(built.system.links)>>)>>
                           ELSE <<>>, now)
    /\ pc' = IF isMultiNode(suConfig) THEN "done" ELSE "paths1"
    /\ ringGraph' = IF isMultiNode(suConfig) THEN emptyRing ELSE ringGraph
    /\ treeGraph' = IF isMultiNode(suConfig) THEN emptyTree ELSE treeGraph
    /\ UNCHANGED <<run, config, env, minChannels, maxChannels, romeModelMatch, now, first,
                   suConfig, snapshot, attempt, frame>>

\* Step 2 and Step 4: computeAllPaths.
ComputePaths ==
    /\ pc \in {"paths1", "paths2"}
    /\ \E r \in {computeAllPaths(system, env)} :
           /\ system' = r.system
           /\ log' = emitAll(log,
                        <<IF pc = "paths1"
                          THEN Emit("searchInit", "Step 2: Computing all paths (first pass)",
                                    <<>>, <<>>)
                          ELSE Emit("searchInit", "Step 4: Recomputing paths after trim",
                                    <<>>, <<>>)>>
                        \o r.emits, now)
    /\ pc' = IF pc = "paths1" THEN "trim" ELSE "bounds"
    /\ UNCHANGED <<run, config, env, minChannels, maxChannels, ringGraph, treeGraph,
                   romeModelMatch, now, first, suConfig, snapshot, attempt, frame>>

\* Step 3: trimSystem.
TrimSystem ==
    /\ pc = "trim"
    /\ \E r \in {trimSystem(system)} :
           /\ system' = r.system
           /\ log' = emitAll(log, <<Emit("searchInit", "Step 3: Trimming system", <<>>, <<>>)>>
                                  \o r.emits, now)
    /\ pc' = "paths2"
    /\ UNCHANGED <<run, config, env, minChannels, maxChannels, ringGraph, treeGraph,
                   romeModelMatch, now, first, suConfig, snapshot, attempt, frame>>

\* The channel bounds from the two options.
ResolveBounds ==
    /\ pc = "bounds"
    /\ minChannels' = resolveMinChannels(getEnvInt(env, "NCCL_MIN_NCHANNELS"))
    /\ maxChannels' = resolveMaxChannels(getEnvInt(env, "NCCL_MIN_NCHANNELS"),
                                         getEnvInt(env, "NCCL_MAX_NCHANNELS"))
    /\ log' = emitAll(log,
                  <<Emit("searchInit", "Channel bounds",
                         <<minChannels', maxChannels'>>,
                         <<getEnvInt(env, "NCCL_MIN_NCHANNELS"),
                           getEnvInt(env, "NCCL_MAX_NCHANNELS")>>)>>, now)
    /\ pc' = "ring"
    /\ UNCHANGED <<run, config, env, system, ringGraph, treeGraph, romeModelMatch, now, first, suConfig, snapshot, attempt, frame>>

\* What performRingSearch logs around the result r of ncclTopoCompute.
ringSearchLogged(minCh, ringMaxChannels, nGpus, r) ==
    [graph |-> r.graph,
     emits |-> <<Emit("searchInit", "Step 5: Ring search", <<minCh, ringMaxChannels>>,
                      <<minCh, ringMaxChannels, nGpus>>)>>
               \o r.emits
               \o <<Emit("searchInit", "Ring search result",
                         <<r.graph.nChannels, r.graph.speedIntra, r.graph.id>>,
                         <<r.graph.nChannels, r.graph.speedIntra, r.graph.speedInter>>)>>]

\* performRingSearch; returns [graph, emits].
performRingSearch(sys, minCh, maxCh, nGpus, envConfig, clock) ==
    ringSearchLogged(minCh, Max(1, maxCh \div 2), nGpus,
        ncclTopoCompute(sys, NCCL_TOPO_PATTERN_RING, minCh, Max(1, maxCh \div 2),
                        envConfig, clock))

\* Step 5 when the ring graph comes from the ring search; before holds the
\* entries of Step 5a, if it ran.
RingSearched(before) ==
    \E search \in {performRingSearch(system, minChannels, maxChannels,
                                     Len(nodesOfType(system, NODE_GPU)), env, now)} :
        /\ ringGraph' = search.graph
        /\ romeModelMatch' = NullValue
        /\ log' = emitAll(log, before \o search.emits, now)

\* Step 5a with a matched model: the ring graph is the model's.
RomeMatched(match) ==
    /\ ringGraph' = match.match[1].ringGraph
    /\ romeModelMatch' = <<match.match[1].model.id>>
    /\ log' = emitAll(log,
                 <<Emit("searchInit", "Step 5a: Attempting RCCL Rome model match",
                        <<>>, <<>>)>>
                 \o match.emits
                 \o <<Emit("searchInit", "Rome model matched",
                           <<match.match[1].model.id,
                             match.match[1].ringGraph.nChannels,
                             match.match[1].ringGraph.speedIntra>>,
                           <<match.match[1].model.id,
                             match.match[1].ringGraph.nChannels>>)>>, now)

\* Step 5: the registry match in RCCL mode, else (or on no match) the ring search.
RingStage ==
    /\ pc = "ring"
    /\ IF isRcclMode(config)
       THEN \E match \in {matchRomeModel(config, system, env)} :
                IF match.match # NoMatch
                THEN RomeMatched(match)
                ELSE RingSearched(
                         <<Emit("searchInit", "Step 5a: Attempting RCCL Rome model match",
                                <<>>, <<>>)>>
                         \o match.emits
                         \o <<Emit("searchInit", "No Rome model matched", <<>>, <<>>)>>)
       ELSE RingSearched(<<>>)
    /\ pc' = "tree"
    /\ UNCHANGED <<run, config, env, system, minChannels, maxChannels, treeGraph, now, first, suConfig, snapshot, attempt, frame>>

\* Step 6: the tree search and the tree graph built from the ring graph.
TreeStage ==
    /\ pc = "tree"
    /\ \E treeSearch \in {ncclTopoCompute(system, NCCL_TOPO_PATTERN_BALANCED_TREE, 1,
                                          Max(1, ringGraph.nChannels), env, now)},
          built \in {buildTreeGraph(ringGraph, Len(nodesOfType(system, NODE_GPU)))} :
       LET nGpus == Len(nodesOfType(system, NODE_GPU))
           treeMaxChannels == Max(1, ringGraph.nChannels)
           tree == [built.graph EXCEPT
                       !.speedIntra = orElse(treeSearch.graph.speedIntra, ringGraph.speedIntra),
                       !.speedInter = orElse(treeSearch.graph.speedInter, ringGraph.speedInter),
                       !.typeIntra = orElse(treeSearch.graph.typeIntra, ringGraph.typeIntra),
                       !.typeInter = orElse(treeSearch.graph.typeInter, ringGraph.typeInter)]
       IN  /\ treeGraph' = tree
           /\ log' = emitAll(log,
                        <<Emit("searchInit", "Step 6: Tree search", <<1, treeMaxChannels>>,
                               <<1, treeMaxChannels, nGpus>>)>>
                        \o treeSearch.emits
                        \o built.emits
                        \o <<Emit("searchInit", "Tree construction result",
                                  <<tree.nChannels, tree.speedIntra, nGpus>>,
                                  <<tree.nChannels, tree.speedIntra>>)>>, now)
    /\ pc' = "rings"
    /\ UNCHANGED <<run, config, env, system, minChannels, maxChannels, ringGraph,
                   romeModelMatch, now, first, suConfig, snapshot, attempt, frame>>

\* Step 7: setupRings.
SetupRings ==
    /\ pc = "rings"
    /\ \E r \in {setupRings(ringGraph)} :
           /\ ringGraph' = r.graph
           /\ log' = emitAll(log,
                        <<Emit("searchInit", "Step 7: Setting up ring connections", <<>>, <<>>)>>
                        \o r.emits, now)
    /\ pc' = "connect"
    /\ UNCHANGED <<run, config, env, system, minChannels, maxChannels, treeGraph,
                   romeModelMatch, now, first, suConfig, snapshot, attempt, frame>>

\* Step 8, the final summary, and the return of the plan.
SetupChannels ==
    /\ pc = "connect"
    /\ \E connected \in {setupChannels(system, ringGraph, treeGraph)} :
       LET entries == emitAll(log,
                          <<Emit("searchInit", "Step 8: Setting up channels (connect)",
                                 <<>>, <<>>)>>
                          \o connected.emits, now)
       IN  /\ ringGraph' = connected.ringGraph
           /\ treeGraph' = connected.treeGraph
           /\ log' = emitAll(entries,
                        <<Emit("searchInit", "Initialization complete",
                               <<connected.ringGraph.nChannels, connected.treeGraph.nChannels,
                                 Len(nodesOfType(system, NODE_GPU)), romeModelMatch,
                                 Len(entries)>>,
                               <<connected.ringGraph.nChannels, connected.treeGraph.nChannels,
                                 Len(nodesOfType(system, NODE_GPU)), romeModelMatch,
                                 Len(entries)>>)>>, now)
    /\ pc' = "done"
    /\ UNCHANGED <<run, config, env, system, minChannels, maxChannels, romeModelMatch,
                   now, first, suConfig, snapshot, attempt, frame>>

\* The clock advances between the two runs.
Tick ==
    /\ pc = "done"
    /\ run = 1
    /\ now < MaxClock
    /\ now' = now + 1
    /\ UNCHANGED <<pc, run, config, env, system, minChannels, maxChannels, ringGraph,
                   treeGraph, romeModelMatch, log, first, suConfig, snapshot, attempt, frame>>

\* The caller keeps the first plan and calls runInit again on the same input.
RunAgain ==
    /\ pc = "done"
    /\ run = 1
    /\ first' = <<[ringGraph |-> ringGraph, treeGraph |-> treeGraph, log |-> log]>>
    /\ run' = 2
    /\ pc' = "build"
    /\ system' = NoSystem
    /\ minChannels' = 0
    /\ maxChannels' = 0
    /\ ringGraph' = NoGraph
    /\ treeGraph' = NoGraph
    /\ romeModelMatch' = NullValue
    /\ log' = <<>>
    /\ UNCHANGED <<config, env, now, suConfig, snapshot, attempt, frame>>

Next ==
    \/ BuildSystem
    \/ ComputePaths
    \/ TrimSystem
    \/ ResolveBounds
    \/ RingStage
    \/ TreeStage
    \/ SetupRings
    \/ SetupChannels
    \/ Tick
    \/ RunAgain

Spec == Init /\ [][Next]_vars

(***************************************************************************)
(* The channel bounds on their own: every pair of option values            *)
(***************************************************************************)
\* How far the option values range below 0 and above MAXCHANNELS.
OptionMargin == 3

OptionValues == (0 - OptionMargin)..(MAXCHANNELS + OptionMargin)

InitBounds ==
    /\ pc = "bounds"
    /\ run = 1
    /\ config = smallConfig("H100", 1, "pcie", 1, "valid")
    /\ env \in {createDefaultEnvConfig}
               \cup {withOverrides([NCCL_MIN_NCHANNELS |-> a, NCCL_MAX_NCHANNELS |-> b]) :
                        a \in OptionValues, b \in OptionValues}
    /\ system = NoSystem
    /\ minChannels = 0
    /\ maxChannels = 0
    /\ ringGraph = NoGraph
    /\ treeGraph = NoGraph
    /\ romeModelMatch = NullValue
    /\ log = <<>>
    /\ now = 0
    /\ first = NoPlan
    /\ suConfig = NullValue
    /\ snapshot = NoSnapshot
    /\ attempt = NoAttempt
    /\ frame = NoFrame

NextBounds == ResolveBounds

SpecBounds == InitBounds /\ [][NextBounds]_vars

(***************************************************************************)
(* The topology stages on their own: the builders, the best paths and the  *)
(* trim, over a wider family of inputs (no GPU at all, NVLink bounce       *)
(* disabled, several servers)                                              *)
(***************************************************************************)
\* The largest server count and rail count of the scale units.
MaxServers == 2

MaxRails == 2

SuConfigs ==
    {NullValue}
    \cup {<<[serverCount |-> n, railCount |-> r, networkType |-> t]>> :
             n \in 1..MaxServers, r \in 1..MaxRails, t \in {"rail-optimized", "fat-tree"}}

\* The small hardware descriptions, the same without any GPU, and NVSwitch
\* servers with two NICs.
TopoConfigs ==
    {c \in Configs : c.gpu.count <= MaxGpus}
    \cup {smallConfig("H100", 0, "pcie", nCpus, "valid") : nCpus \in {1, 2}}
    \cup {[smallConfig("H100", n, "nvswitch", 2, "valid") EXCEPT !.nic.count = 2] :
             n \in 1..MaxGpus}

TopoEnvs == {createDefaultEnvConfig, withOverrides([NCCL_NVB_DISABLE |-> 1])}

InitTopo ==
    /\ pc = "build"
    /\ run = 1
    /\ config \in TopoConfigs
    /\ env \in TopoEnvs
    /\ system = NoSystem
    /\ minChannels = 0
    /\ maxChannels = 0
    /\ ringGraph = NoGraph
    /\ treeGraph = NoGraph
    /\ romeModelMatch = NullValue
    /\ log = <<>>
    /\ now = 0
    /\ first = NoPlan
    /\ suConfig \in SuConfigs
    /\ snapshot = NoSnapshot
    /\ attempt = NoAttempt
    /\ frame = NoFrame

NextTopo ==
    \/ BuildSystem
    \/ ComputePaths
    \/ TrimSystem

SpecTopo == InitTopo /\ [][NextTopo]_vars

(***************************************************************************)
(* computeAllPaths and trimSystem called on a system: a built one, or a    *)
(* built NVLink mesh with the links of one GPU pair taken out (a partial   *)
(* mesh, in which some GPU pairs have no direct link)                      *)
(***************************************************************************)
\* The system without the links between GPU a and GPU b.
withoutPair(sys, a, b) ==
    LET links == SelectSeq(sys.links,
                           LAMBDA l : {l.fromId, l.toId} # {gpuId(a), gpuId(b)})
    IN  [sys EXCEPT !.links = links, !.maxBw = maxLinkBw(links),
                    !.totalBw = totalLinkBw(links)]

partialMeshes(c) ==
    IF c.gpu.nvlinksPerPair > 0 /\ c.nvswitch.count = 0 /\ validConfig(c)
    THEN {withoutPair(buildTopoSystem(c), a, b) :
             a \in 0..(c.gpu.count - 1), b \in 1..(c.gpu.count - 1)}
    ELSE {}

\* The option sets of the path computation: nothing overridden, and each of
\* nvb-disable, pxn-disable and pxn-c2c overridden.
PathEnvs ==
    TopoEnvs \cup {withOverrides([NCCL_PXN_DISABLE |-> 1]), withOverrides([NCCL_PXN_C2C |-> 0])}

InitPaths ==
    /\ pc = "paths1"
    /\ run = 1
    /\ config \in TopoConfigs
    /\ env \in PathEnvs
    /\ system \in {buildTopoSystem(config)} \cup partialMeshes(config)
    /\ minChannels = 0
    /\ maxChannels = 0
    /\ ringGraph = NoGraph
    /\ treeGraph = NoGraph
    /\ romeModelMatch = NullValue
    /\ log = <<>>
    /\ now = 0
    /\ first = NoPlan
    /\ suConfig = NullValue
    /\ snapshot = NoSnapshot
    /\ attempt = NoAttempt
    /\ frame = NoFrame

NextPaths ==
    \/ ComputePaths
    \/ TrimSystem

SpecPaths == InitPaths /\ [][NextPaths]_vars

(***************************************************************************)
(* One call of spfaFromSource on a system, a step per relaxation: one      *)
(* neighbor entry of the node being expanded is examined in each step.     *)
(* frame[1] holds the call: the source, best, the current and the next     *)
(* layer, the position (i in the layer, k in the adjacency list), the      *)
(* entry of the node being expanded, and what the last step examined.      *)
(***************************************************************************)
spfaContext(sourceId) ==
    [sourceId |-> sourceId, adj |-> buildAdjacency(system), nodeMap |-> buildNodeMap(system),
     nvbDisabled |-> getEnvInt(env, "NCCL_NVB_DISABLE") # 0]

\* The position of the next neighbor entry to examine from position (i, k):
\* nodes without adjacency entries are skipped, an exhausted layer gives way
\* to the next one, and an empty layer ends the loop.
RECURSIVE spfaPosition(_, _)
spfaPosition(adj, f) ==
    IF f.currentLayer = <<>> THEN [f EXCEPT !.done = TRUE]
    ELSE IF f.i > Len(f.currentLayer)
    THEN spfaPosition(adj, [f EXCEPT !.currentLayer = f.nextLayer, !.nextLayer = <<>>,
                                     !.i = 1, !.k = 1])
    ELSE IF f.currentLayer[f.i] \notin DOMAIN adj \/ f.k > Len(adj[f.currentLayer[f.i]])
    THEN spfaPosition(adj, [f EXCEPT !.i = f.i + 1, !.k = 1])
    ELSE IF f.k = 1 THEN [f EXCEPT !.currentEntry = f.best[f.currentLayer[f.i]]]
    ELSE f

\* The hardware descriptions of the calls: those of the topology stages, an
\* NVSwitch server whose NVLinks are slower than its PCIe links (compute
\* capability 8.6, all GPUs under one PCIe switch), and two-NIC servers whose
\* NIC speed is 0.
SpfaConfigs ==
    TopoConfigs
    \cup {[smallConfig("H100", n, "nvswitch", 1, "valid") EXCEPT !.gpu.cudaCompCap = 86] :
             n \in 2..MaxGpus}
    \cup {[smallConfig("H100", n, "nvswitch", 1, "valid")
               EXCEPT !.nic = [count |-> 2, speed |-> 0]] : n \in 1..2}

\* The systems of a hardware description: the built server, its partial
\* meshes and, for a two-NIC server of at most two GPUs, the two-server
\* systems of two rails.
spfaSystems(c) ==
    {buildTopoSystem(c)}
    \cup partialMeshes(c)
    \cup (IF c.nic.count = 2 /\ c.gpu.count <= 2
          THEN {createMultiNodeTopology(
                    c, [serverCount |-> 2, railCount |-> 2, networkType |-> t]).system :
                    t \in {"rail-optimized", "fat-tree"}}
          ELSE {})

InitSpfa ==
    /\ pc = "spfa"
    /\ run = 1
    /\ config \in SpfaConfigs
    /\ env \in TopoEnvs
    /\ system \in spfaSystems(config)
    /\ minChannels = 0
    /\ maxChannels = 0
    /\ ringGraph = NoGraph
    /\ treeGraph = NoGraph
    /\ romeModelMatch = NullValue
    /\ log = <<>>
    /\ now = 0
    /\ first = NoPlan
    /\ suConfig = NullValue
    /\ snapshot = NoSnapshot
    /\ attempt = NoAttempt
    /\ frame = NoFrame

\* spfaFromSource is entered for one source of computeAllPaths.
BeginSpfa ==
    /\ pc = "spfa"
    /\ frame = NoFrame
    /\ \E s \in Range(nodesOfType(system, NODE_GPU) \o nodesOfType(system, NODE_NIC)) :
           \E sourceEntry \in {[nodeId |-> s.id, pathType |-> PATH_LOC, bandwidth |-> LOC_BW,
                                hops |-> <<>>, hopCount |-> 0]} :
               frame' = <<spfaPosition(buildAdjacency(system),
                              [sourceId |-> s.id, best |-> s.id :> sourceEntry,
                               currentLayer |-> <<s.id>>, nextLayer |-> <<>>, i |-> 1, k |-> 1,
                               currentEntry |-> sourceEntry, last |-> <<>>, done |-> FALSE])>>
    /\ UNCHANGED <<pc, run, config, env, system, minChannels, maxChannels, ringGraph,
                   treeGraph, romeModelMatch, log, now, first, suConfig, snapshot, attempt>>

\* One iteration of the loop over the neighbors of the node being expanded.
RelaxStep ==
    /\ pc = "spfa"
    /\ frame # NoFrame
    /\ ~ frame[1].done
    /\ \E f \in {frame[1]}, ctx \in {spfaContext(frame[1].sourceId)} :
           \E currentId \in {f.currentLayer[f.i]} :
               \E st \in {spfaNeighbors(ctx, currentId, f.currentEntry,
                                        <<ctx.adj[currentId][f.k]>>, 1,
                                        [best |-> f.best, nextLayer |-> f.nextLayer])} :
                   frame' = <<spfaPosition(ctx.adj,
                                  [f EXCEPT !.best = st.best, !.nextLayer = st.nextLayer,
                                            !.k = f.k + 1,
                                            !.last = <<[currentId |-> currentId,
                                                        currentEntry |-> f.currentEntry,
                                                        edge |-> ctx.adj[currentId][f.k],
                                                        before |-> f.best]>>])>>
    /\ UNCHANGED <<pc, run, config, env, system, minChannels, maxChannels, ringGraph,
                   treeGraph, romeModelMatch, log, now, first, suConfig, snapshot, attempt>>

NextSpfa ==
    \/ BeginSpfa
    \/ RelaxStep

SpecSpfa == InitSpfa /\ [][NextSpfa]_vars

(***************************************************************************)
(* One call of searchForChannels on a prepared system, a step per ring     *)
(* search: the call ncclTopoCompute makes at one speed, with one           *)
(* sameChannels setting and one channel bound.                             *)
(***************************************************************************)
\* The largest channel bound of an attempt, MAXCHANNELS apart.
MaxAttemptChannels == 3

AttemptChannels == (1..MaxAttemptChannels) \cup {MAXCHANNELS}

AttemptSpeeds == Range(speedArrayIntra)

\* The system as the ring search receives it: built, paths computed,
\* trimmed, paths computed again.
preparedSystem(c, e) ==
    computeAllPaths(trimSystem(computeAllPaths(buildTopoSystem(c), e).system).system, e).system

AttemptConfigs == {c \in Configs : c.gpu.count <= MaxGpus /\ validConfig(c)}

InitAttempt ==
    /\ pc = "ring"
    /\ run = 1
    /\ config \in AttemptConfigs
    /\ env = createDefaultEnvConfig
    /\ system = preparedSystem(config, env)
    /\ minChannels = 0
    /\ maxChannels = 0
    /\ ringGraph = NoGraph
    /\ treeGraph = NoGraph
    /\ romeModelMatch = NullValue
    /\ log = <<>>
    /\ now = 0
    /\ first = NoPlan
    /\ suConfig = NullValue
    /\ snapshot = NoSnapshot
    /\ attempt = NoAttempt
    /\ frame = NoFrame

\* The attempt once searchForChannels has returned r through its single-GPU
\* branch.
trivialAttempt(speed, same, maxCh, r) ==
    <<[speed |-> speed, sameChannels |-> same, maxChannels |-> maxCh, ch |-> r.nChannels,
       startIdx |-> 1,
       st |-> [freshSearch(system, 0) EXCEPT !.channels = r.channels],
       chBefore |-> initRemainingBw(system.paths),
       startBefore |-> initRemainingBw(system.paths),
       last |-> "trivial", done |-> TRUE]>>

\* searchForChannels is entered: the single-GPU branch returns at once, the
\* channel loop starts at channel 0 otherwise.
BeginAttempt ==
    /\ pc = "ring"
    /\ attempt = NoAttempt
    /\ \E speed \in AttemptSpeeds, same \in {0, 1}, maxCh \in AttemptChannels :
           IF Len(getGpuNodes(system)) <= 1
           THEN \E r \in {searchForChannels(system, getGpuNodes(system),
                                            NCCL_TOPO_PATTERN_RING, speed, maxCh, same, 0)} :
                    attempt' = trivialAttempt(speed, same, maxCh, r)
           ELSE attempt' =
                    <<[speed |-> speed, sameChannels |-> same, maxChannels |-> maxCh,
                       ch |-> 0, startIdx |-> 1, st |-> freshSearch(system, 0),
                       chBefore |-> initRemainingBw(system.paths),
                       startBefore |-> initRemainingBw(system.paths),
                       last |-> "begin", done |-> FALSE]>>
    /\ UNCHANGED <<pc, run, config, env, system, minChannels, maxChannels, ringGraph,
                   treeGraph, romeModelMatch, log, now, first, suConfig, snapshot, frame>>

attemptCtx(a) ==
    searchCtx(system, getGpuNodes(system), NCCL_TOPO_PATTERN_RING, a.speed, a.sameChannels)

\* The state a ring search of the attempt starts from: the iteration count
\* is reset when the search for a channel begins.
searchStart(a) ==
    IF a.startIdx = 1 THEN [a.st.state EXCEPT !.iterations = 0] ELSE a.st.state

\* The attempt after the channel loop's body has handled found for channel
\* a.ch: the ring is consumed and its channel pushed, or the loop breaks.
afterRing(a, found, next) ==
    <<[a EXCEPT !.st = next,
                !.ch = IF found.ring = NoRing THEN a.ch ELSE a.ch + 1,
                !.startIdx = 1,
                !.chBefore = IF a.startIdx = 1 THEN searchStart(a).remainingBw
                             ELSE a.chBefore,
                !.startBefore = searchStart(a).remainingBw,
                !.last = IF found.ring = NoRing THEN "failed" ELSE "accepted",
                !.done = \/ found.ring = NoRing
                         \/ next.state.timedOut
                         \/ ~ (a.ch + 1 < a.maxChannels /\ a.ch + 1 < MAXCHANNELS)]>>

\* The attempt after a ring search from one starting GPU has failed and the
\* loop over the starting GPUs goes on.
afterFailedStart(a, found) ==
    <<[a EXCEPT !.st = [a.st EXCEPT !.state = found.state],
                !.startIdx = a.startIdx + 1,
                !.chBefore = IF a.startIdx = 1 THEN searchStart(a).remainingBw
                             ELSE a.chBefore,
                !.startBefore = searchStart(a).remainingBw,
                !.last = "failed"]>>

\* One ring search of the channel loop: the reuse of the first ring, or the
\* search from the next starting GPU.
RingStep ==
    /\ pc = "ring"
    /\ attempt # NoAttempt
    /\ ~ attempt[1].done
    /\ \E a \in {attempt[1]} :
       \E found \in {IF a.sameChannels = 1 /\ a.st.firstRing # NoRing
                     THEN [ring |-> tryReusedRing(system, a.st.firstRing, a.speed,
                                                  searchStart(a)),
                           state |-> searchStart(a)]
                     ELSE searchRingFromStart(attemptCtx(a), getGpuNodes(system)[a.startIdx],
                                              searchStart(a))} :
           IF \/ found.ring # NoRing
              \/ a.sameChannels = 1 /\ a.st.firstRing # NoRing
              \/ found.state.timedOut
              \/ a.startIdx = Len(getGpuNodes(system))
           THEN \E next \in {channelFound(attemptCtx(a), a.ch + 1, a.sameChannels, a.ch,
                                          a.st, found)} :
                    attempt' = afterRing(a, found, next)
           ELSE attempt' = afterFailedStart(a, found)
    /\ UNCHANGED <<pc, run, config, env, system, minChannels, maxChannels, ringGraph,
                   treeGraph, romeModelMatch, log, now, first, suConfig, snapshot, frame>>

NextAttempt ==
    \/ BeginAttempt
    \/ RingStep

SpecAttempt == InitAttempt /\ [][NextAttempt]_vars

(***************************************************************************)
(* One call of ncclTopoCompute on a prepared system, a step per attempt    *)
(* (one call of searchForChannels and the rest of the loop body around     *)
(* it). frame[1] holds the call: the pattern argument, the phase, the      *)
(* speed index si, the locals rs of the relaxation loop, bestResult, the   *)
(* global iteration count, the speed index optSi of Phase 2, and the       *)
(* parameters and outcome of the last attempt (last) and of the one        *)
(* before it (prev). minChannels and maxChannels hold the arguments.       *)
(***************************************************************************)
\* The (minChannels, maxChannels) arguments of the calls.
SearchBounds == {<<1, 1>>, <<1, 2>>, <<2, 2>>, <<4, 4>>, <<1, 16>>}

SearchPatterns == {NCCL_TOPO_PATTERN_RING, NCCL_TOPO_PATTERN_BALANCED_TREE}

\* The small hardware descriptions, those whose NUMA mapping names a CPU that
\* does not exist included (for every GPU, or for the GPUs of the second CPU
\* of a description whose CPU count was lowered to 1): the trim marks their
\* systems as inter-node when it finds GPU pairs without a path.
SearchConfigs ==
    {c \in Configs : c.gpu.count <= MaxGpus}
    \cup {[smallConfig("H100", n, "pcie", 2, "valid") EXCEPT !.cpu.count = 1] : n \in 2..MaxGpus}

\* Six GPUs on PCIe of which the last names a CPU that does not exist: no
\* ring goes through it, and the search among the other five takes more
\* than SEARCH_TIMEOUT_SAMECHANNELS iterations to find that out.
sixGpuConfig ==
    [smallConfig("H100", 6, "pcie", 1, "valid") EXCEPT !.numaMapping = <<0, 0, 0, 0, 0, 1>>]

\* Servers with x86 CPUs of AMD, the GPUs on PCIe and spread over the two
\* CPUs, so that GPUs of different CPUs reach each other through both (SYS).
AmdCpuConfigs ==
    {[smallConfig("H100", n, "pcie", 2, "valid") EXCEPT !.cpu.vendor = CPUVendor_AMD] :
        n \in 2..MaxGpus}

\* How far below SEARCH_GLOBAL_TIMEOUT the global iteration count of a call
\* is picked up.
BudgetMargin == 24

\* The systems whose search is also followed across the global budget.
BudgetConfigs == {smallConfig("H100", n, "pcie", 1, "valid") : n \in 2..MaxGpus}

\* The global iteration counts the loops are entered with. A call starts at
\* 0, and the search of a system this small ends long before the global
\* budget; the counts near the budget stand for a call that has spent that
\* many iterations by the time the attempt at hand begins.
SearchStarts(c) ==
    IF c \in BudgetConfigs
    THEN {0, SEARCH_GLOBAL_TIMEOUT + 1}
         \cup {SEARCH_GLOBAL_TIMEOUT - d : d \in 0..BudgetMargin}
    ELSE {0}

searchContextOf(f) == searchContext(system, f.pattern, minChannels, maxChannels, env)

\* The locals of the relaxation loop when the loop over the speeds enters it.
relaxationLocals(ctx) ==
    [sameChannels |-> 1, localTypeIntra |-> ctx.typeIntra, localTypeInter |-> ctx.typeInter,
     localCrossNic |-> IF ctx.crossNic = 2 THEN 0 ELSE ctx.crossNic,
     localPattern |-> ctx.patternNum]

\* relaxationCascade with the typeIntra step leaving sameChannels as it is.
relaxationCascadeKeepingSame(ctx, rs) ==
    IF rs.sameChannels = 1 THEN <<[rs EXCEPT !.sameChannels = 0]>>
    ELSE IF ctx.ccMin >= 90 /\ rs.localPattern = NCCL_TOPO_PATTERN_BALANCED_TREE
    THEN <<[rs EXCEPT !.localPattern = NCCL_TOPO_PATTERN_RING, !.sameChannels = 1]>>
    ELSE IF rs.localTypeIntra < ctx.typeIntraMax
    THEN <<[rs EXCEPT !.localTypeIntra = @ + 1]>>
    ELSE IF ctx.system.inter /\ rs.localTypeInter < ctx.typeInterMax
    THEN <<[rs EXCEPT !.localTypeInter = @ + 1, !.sameChannels = 1]>>
    ELSE IF ctx.system.inter /\ ctx.crossNic = 2 /\ rs.localCrossNic = 0
    THEN <<[rs EXCEPT !.localCrossNic = 1, !.sameChannels = 1]>>
    ELSE <<>>

\* The relaxation cascade: the locals the next attempt at the same speed
\* runs with, none when every relaxation is exhausted.
relaxationCascade(ctx, rs) ==
    IF rs.sameChannels = 1 THEN <<[rs EXCEPT !.sameChannels = 0]>>
    ELSE IF ctx.ccMin >= 90 /\ rs.localPattern = NCCL_TOPO_PATTERN_BALANCED_TREE
    THEN <<[rs EXCEPT !.localPattern = NCCL_TOPO_PATTERN_RING, !.sameChannels = 1]>>
    ELSE IF rs.localTypeIntra < ctx.typeIntraMax
    THEN <<[rs EXCEPT !.localTypeIntra = @ + 1, !.sameChannels = 1]>>
    ELSE IF ctx.system.inter /\ rs.localTypeInter < ctx.typeInterMax
    THEN <<[rs EXCEPT !.localTypeInter = @ + 1, !.sameChannels = 1]>>
    ELSE IF ctx.system.inter /\ ctx.crossNic = 2 /\ rs.localCrossNic = 0
    THEN <<[rs EXCEPT !.localCrossNic = 1, !.sameChannels = 1]>>
    ELSE <<>>

\* What an attempt ran with (before is the global iteration count it started
\* from) and what it returned.
attemptRecord(phase, speed, rs, ctx, found, before) ==
    [phase |-> phase, speed |-> speed, sameChannels |-> rs.sameChannels,
     pattern |-> rs.localPattern, typeIntra |-> rs.localTypeIntra,
     typeInter |-> rs.localTypeInter, crossNic |-> rs.localCrossNic,
     maxChannels |-> ctx.maxChannels, nChannels |-> found.nChannels,
     timedOut |-> found.timedOut, iterations |-> found.iterations,
     before |-> before, globalIterations |-> found.globalIterations]

\* The call once Phase 1 has ended in f: Phase 2 begins at the speed above
\* the last one tried, or the call is over.
afterPhase1(ctx, f) ==
    IF /\ f.bestResult # NoResult
       /\ f.bestResult[1].time # -1
       /\ f.si - 1 > 0
       /\ f.si - 1 >= ctx.speedIndex
    THEN [f EXCEPT !.phase = "phase2", !.optSi = f.si - 1]
    ELSE [f EXCEPT !.phase = "done"]

\* The body of the relaxation loop once searchForChannels has returned found,
\* with the end of the loop over the speeds when the relaxation loop breaks.
afterAttempt(ctx, f, found) ==
    LET speed == ctx.speedArray[f.si]
        qualifies == found.nChannels >= ctx.minChannels
        optimal == qualifies /\ ~ found.timedOut /\ speed * found.nChannels >= ctx.system.totalBw
        enough == qualifies /\ found.nChannels >= ctx.maxChannels
        f1 == [f EXCEPT !.bestResult = IF qualifies
                                       THEN <<mkResult(ctx.system, found, speed,
                                                       f.rs.localTypeIntra, f.rs.localTypeInter)>>
                                       ELSE f.bestResult,
                        !.globalIterations = found.globalIterations,
                        !.prev = f.last,
                        !.last = <<attemptRecord("phase1", speed, f.rs, ctx, found, f.globalIterations)>>]
    IN  IF optimal \/ enough THEN afterPhase1(ctx, f1)
        ELSE IF relaxationCascade(ctx, f.rs) # <<>>
        THEN [f1 EXCEPT !.rs = relaxationCascade(ctx, f.rs)[1]]
        ELSE IF f.si + 1 <= Len(ctx.speedArray)
        THEN [f1 EXCEPT !.si = f.si + 1, !.rs = relaxationLocals(ctx)]
        ELSE afterPhase1(ctx, [f1 EXCEPT !.si = f.si + 1])

\* The body of the loop of Phase 2 once searchForChannels has returned found.
afterOptimize(ctx, f, found) ==
    LET optSpeed == ctx.speedArray[f.optSi]
        best == f.bestResult[1]
        improved == /\ found.nChannels >= ctx.minChannels
                    /\ optSpeed * found.nChannels > best.speedIntra * best.nChannels
        rs == [relaxationLocals(ctx) EXCEPT !.sameChannels = 0,
                                            !.localTypeIntra = best.typeIntra,
                                            !.localTypeInter = best.typeInter]
        f1 == [f EXCEPT !.bestResult = IF improved
                                       THEN <<mkResult(ctx.system, found, optSpeed,
                                                       best.typeIntra, best.typeInter)>>
                                       ELSE f.bestResult,
                        !.globalIterations = found.globalIterations,
                        !.prev = f.last,
                        !.last = <<attemptRecord("phase2", optSpeed, rs, ctx, found, f.globalIterations)>>]
    IN  IF found.globalIterations > SEARCH_GLOBAL_TIMEOUT \/ f.optSi - 1 < ctx.speedIndex
        THEN [f1 EXCEPT !.phase = "done"]
        ELSE [f1 EXCEPT !.optSi = f.optSi - 1]

InitSearch ==
    /\ pc = "search"
    /\ run = 1
    /\ \/ /\ config \in SearchConfigs
          /\ env \in Envs
          /\ \E b \in SearchBounds : minChannels = b[1] /\ maxChannels = b[2]
       \/ /\ config \in {sixGpuConfig} \cup AmdCpuConfigs
          /\ env = createDefaultEnvConfig
          /\ minChannels = 1
          /\ maxChannels = 2
    /\ system = preparedSystem(config, env)
    /\ ringGraph = NoGraph
    /\ treeGraph = NoGraph
    /\ romeModelMatch = NullValue
    /\ log = <<>>
    /\ now = 0
    /\ first = NoPlan
    /\ suConfig = NullValue
    /\ snapshot = NoSnapshot
    /\ attempt = NoAttempt
    /\ frame = NoFrame

\* ncclTopoCompute is entered and reaches the loop of Phase 1.
BeginSearch ==
    /\ pc = "search"
    /\ frame = NoFrame
    /\ \E pattern \in SearchPatterns, start \in SearchStarts(config) :
           \E ctx \in {searchContext(system, pattern, minChannels, maxChannels, env)} :
               frame' = <<[pattern |-> pattern, phase |-> "phase1", si |-> ctx.speedIndex,
                           rs |-> relaxationLocals(ctx), bestResult |-> NoResult,
                           start |-> start, globalIterations |-> start, optSi |-> 0,
                           last |-> <<>>, prev |-> <<>>]>>
    /\ UNCHANGED <<pc, run, config, env, system, minChannels, maxChannels, ringGraph,
                   treeGraph, romeModelMatch, log, now, first, suConfig, snapshot, attempt>>

\* One attempt of Phase 1.
SearchAttempt ==
    /\ pc = "search"
    /\ frame # NoFrame
    /\ frame[1].phase = "phase1"
    /\ \E f \in {frame[1]}, ctx \in {searchContextOf(frame[1])} :
           \E found \in {searchForChannels(ctx.system, ctx.gpus, f.rs.localPattern,
                                           ctx.speedArray[f.si], ctx.maxChannels,
                                           f.rs.sameChannels, f.globalIterations)} :
               frame' = <<afterAttempt(ctx, f, found)>>
    /\ UNCHANGED <<pc, run, config, env, system, minChannels, maxChannels, ringGraph,
                   treeGraph, romeModelMatch, log, now, first, suConfig, snapshot, attempt>>

\* One attempt of Phase 2.
OptimizeAttempt ==
    /\ pc = "search"
    /\ frame # NoFrame
    /\ frame[1].phase = "phase2"
    /\ \E f \in {frame[1]}, ctx \in {searchContextOf(frame[1])} :
           \E found \in {searchForChannels(ctx.system, ctx.gpus, ctx.patternNum,
                                           ctx.speedArray[f.optSi], ctx.maxChannels, 0,
                                           f.globalIterations)} :
               frame' = <<afterOptimize(ctx, f, found)>>
    /\ UNCHANGED <<pc, run, config, env, system, minChannels, maxChannels, ringGraph,
                   treeGraph, romeModelMatch, log, now, first, suConfig, snapshot, attempt>>

NextSearch ==
    \/ BeginSearch
    \/ SearchAttempt
    \/ OptimizeAttempt

SpecSearch == InitSearch /\ [][NextSearch]_vars

(***************************************************************************)
(* permuteGpuIds on its own (rome-match.ts): one call on the topology      *)
(* extracted from a hardware description and a registry model with the     *)
(* same counts and signature. frame[1] holds the model (ref), the count    *)
(* the call started from and what it returned.                             *)
(***************************************************************************)
\* The largest GPU count of the descriptions and models.
MaxPermGpus == 3

\* How far below MAX_PERMUTE_TIME a call is picked up.
PermMargin == 6

\* AMD servers of up to MaxPermGpus GPUs, with every NUMA mapping and every
\* number of xGMI links per GPU.
PermConfigs ==
    {[smallConfig("MI300X", n, "pcie", nCpus, "valid")
         EXCEPT !.numaMapping = numa, !.gpu.nvlinksPerPair = nLinks] :
        <<n, nCpus, nLinks, numa>> \in
            {q \in (1..MaxPermGpus) \X {1, 2} \X (0..MaxPermGpus) \X
                       UNION {[1..m -> {0, 1}] : m \in 1..MaxPermGpus} :
                /\ Len(q[4]) = q[1]
                /\ q[3] <= q[1]
                /\ \A i \in 1..q[1] : q[4][i] < q[2]}}

\* The arrays holding each of 0..n-1 once.
PermArrays(n) == {p \in [1..n -> 0..(n - 1)] : \A i, j \in 1..n : p[i] = p[j] => i = j}

\* The registry model that describes topology t with its GPUs numbered by p:
\* GPU i of the model is GPU p[i] of t.
modelOf(t, p) ==
    [id |-> "model", nGpus |-> t.nGpus, nCpus |-> t.nCpus, nNics |-> t.nNics,
     nLinks |-> t.nLinks,
     gpuNuma |-> [i \in 1..t.nGpus |-> t.gpuNuma[p[i] + 1]],
     nicNuma |-> t.nicNuma,
     connMatrix |-> [k \in 1..(t.nGpus * t.nGpus) |->
                        t.connMatrix[p[((k - 1) \div t.nGpus) + 1] * t.nGpus
                                     + p[((k - 1) % t.nGpus) + 1] + 1]],
     pattern |-> t.pattern, ringBase |-> <<>>]

\* The models matchRomeModel hands to permuteGpuIds for topology topo: those
\* with its counts and its signature. A model is written by hand, so its
\* connectivity matrix may be that of a server with another number of links
\* than its nLinks says.
PermModels(topo) ==
    {ref \in {[modelOf(extractTopology(c), p) EXCEPT !.nLinks = topo.nLinks] :
                 c \in {d \in PermConfigs : d.gpu.count = topo.nGpus},
                 p \in PermArrays(topo.nGpus)} :
        /\ ref.nCpus = topo.nCpus
        /\ ref.nNics = topo.nNics
        /\ ref.pattern = topo.pattern}

\* The counts a call starts from. matchRomeModel starts every search at 0,
\* and a search over this few GPUs ends long before MAX_PERMUTE_TIME; the
\* counts near it stand for the recursive calls deep in a search over
\* more GPUs.
PermStarts == {0} \cup {MAX_PERMUTE_TIME - d : d \in 0..PermMargin}

InitPerm ==
    /\ pc = "perm"
    /\ run = 1
    /\ config \in PermConfigs
    /\ env = createDefaultEnvConfig
    /\ system = NoSystem
    /\ minChannels = 0
    /\ maxChannels = 0
    /\ ringGraph = NoGraph
    /\ treeGraph = NoGraph
    /\ romeModelMatch = NullValue
    /\ log = <<>>
    /\ now = 0
    /\ first = NoPlan
    /\ suConfig = NullValue
    /\ snapshot = NoSnapshot
    /\ attempt = NoAttempt
    /\ frame = NoFrame

\* permuteGpuIds on the identity array, as matchRomeModel calls it.
PermuteGpus ==
    /\ pc = "perm"
    /\ frame = NoFrame
    /\ \E topo \in {extractTopology(config)} :
           \E ref \in PermModels(topo), start \in PermStarts :
               \E res \in {permuteGpuIds([i \in 1..topo.nGpus |-> i - 1], 0, topo.nGpus - 1,
                                         ref, topo, start)} :
                   frame' = <<[ref |-> ref, start |-> start, res |-> res]>>
    /\ UNCHANGED <<pc, run, config, env, system, minChannels, maxChannels, ringGraph,
                   treeGraph, romeModelMatch, log, now, first, suConfig, snapshot, attempt>>

NextPerm == PermuteGpus

SpecPerm == InitPerm /\ [][NextPerm]_vars

(***************************************************************************)
(* ncclGetDtree on its own. The repository holds the tree module twice:    *)
(* with the alternating-leaf getBtree (getBtree above) and with getBtree   *)
(* in array order (trees.ts); setupChannels imports ncclGetDtree from      *)
(* './trees'. frame[1] holds nRanks, rank and, once the call has           *)
(* returned, its result and which of the two modules computed it.          *)
(***************************************************************************)
\* The largest number of ranks.
MaxRanks == 12

\* getBtree of trees.ts: the implicit binary tree in array order, node i
\* with the children 2i+1 and 2i+2.
getBtreeArrayOrder(nRanks, rank) ==
    IF nRanks < 1 THEN [up |-> -1, down0 |-> -1, down1 |-> -1]
    ELSE [up |-> IF rank = 0 THEN -1 ELSE (rank - 1) \div 2,
          down0 |-> IF 2 * rank + 1 < nRanks THEN 2 * rank + 1 ELSE -1,
          down1 |-> IF 2 * rank + 2 < nRanks THEN 2 * rank + 2 ELSE -1]

\* ncclGetDtree of trees.ts.
ncclGetDtreeArrayOrder(nRanks, rank) ==
    [tree0 |-> getBtreeArrayOrder(nRanks, rank),
     tree1 |-> IF nRanks % 2 = 0
               THEN mirrorTree(nRanks, getBtreeArrayOrder(nRanks, nRanks - 1 - rank))
               ELSE shiftTree(nRanks, getBtreeArrayOrder(nRanks, (rank - 1 + nRanks) % nRanks))]

InitDtree ==
    /\ pc = "dtree"
    /\ run = 1
    /\ config = smallConfig("H100", 1, "pcie", 1, "valid")
    /\ env = createDefaultEnvConfig
    /\ system = NoSystem
    /\ minChannels = 0
    /\ maxChannels = 0
    /\ ringGraph = NoGraph
    /\ treeGraph = NoGraph
    /\ romeModelMatch = NullValue
    /\ log = <<>>
    /\ now = 0
    /\ first = NoPlan
    /\ suConfig = NullValue
    /\ snapshot = NoSnapshot
    /\ attempt = NoAttempt
    /\ \E nRanks \in 1..MaxRanks, rank \in 0..(MaxRanks - 1) :
           /\ rank < nRanks
           /\ frame = <<[nRanks |-> nRanks, rank |-> rank, result |-> <<>>,
                         arrayOrder |-> FALSE]>>

\* The call of ncclGetDtree in the rank loop of setupChannels.
GetDtree ==
    /\ pc = "dtree"
    /\ frame[1].result = <<>>
    /\ \/ frame' = <<[frame[1] EXCEPT
                         !.result = <<ncclGetDtree(frame[1].nRanks, frame[1].rank)>>]>>
       \/ frame' = <<[frame[1] EXCEPT
                         !.result = <<ncclGetDtreeArrayOrder(frame[1].nRanks, frame[1].rank)>>,
                         !.arrayOrder = TRUE]>>
    /\ UNCHANGED <<pc, run, config, env, system, minChannels, maxChannels, ringGraph,
                   treeGraph, romeModelMatch, log, now, first, suConfig, snapshot, attempt>>

NextDtree == GetDtree

SpecDtree == InitDtree /\ [][NextDtree]_vars

(***************************************************************************)
(* The DecisionLog on its own (init.ts): emit, getEntries,                 *)
(* getEntriesByPhase, length and clear, and a caller that keeps what       *)
(* getEntries returned. What the caller holds is [entries, live]: entries  *)
(* is the array it was handed, live tells whether that array is the log's  *)
(* own array (then it shows what the log holds now) or a copy.             *)
(***************************************************************************)
\* getEntries returning the log's own array.
getEntriesLive(entries) == [entries |-> entries, live |-> TRUE]

\* [...this.entries]
getEntries(entries) == [entries |-> entries, live |-> FALSE]

getEntriesByPhase(entries, phase) == SelectSeq(entries, LAMBDA e : e.phase = phase)

\* What the caller reads in the array it holds.
heldEntries == IF snapshot[1].live THEN log ELSE snapshot[1].entries

\* The longest log.
MaxLogLen == 3

LogPhases == {"searchInit", "trimSystem", "ringSearch"}

InitLog ==
    /\ pc = "log"
    /\ run = 1
    /\ config = smallConfig("H100", 1, "pcie", 1, "valid")
    /\ env = createDefaultEnvConfig
    /\ system = NoSystem
    /\ minChannels = 0
    /\ maxChannels = 0
    /\ ringGraph = NoGraph
    /\ treeGraph = NoGraph
    /\ romeModelMatch = NullValue
    /\ log = <<>>
    /\ now = 0
    /\ first = NoPlan
    /\ suConfig = NullValue
    /\ snapshot = NoSnapshot
    /\ attempt = NoAttempt
    /\ frame = NoFrame

\* log.emit(phase, ...)
LogEmit ==
    /\ pc = "log"
    /\ Len(log) < MaxLogLen
    /\ \E phase \in LogPhases :
           log' = emitAll(log, <<Emit(phase, "entry", <<>>, <<>>)>>, now)
    /\ UNCHANGED <<pc, run, config, env, system, minChannels, maxChannels, ringGraph,
                   treeGraph, romeModelMatch, now, first, suConfig, snapshot, attempt, frame>>

\* const held = log.getEntries()
LogSnapshot ==
    /\ pc = "log"
    /\ snapshot' = <<getEntries(log)>>
    /\ UNCHANGED <<pc, run, config, env, system, minChannels, maxChannels, ringGraph,
                   treeGraph, romeModelMatch, log, now, first, suConfig, attempt, frame>>

\* log.clear(): the log is fresh again.
LogClear ==
    /\ pc = "log"
    /\ log # <<>>
    /\ log' = <<>>
    /\ UNCHANGED <<pc, run, config, env, system, minChannels, maxChannels, ringGraph,
                   treeGraph, romeModelMatch, now, first, suConfig, snapshot, attempt, frame>>

NextLog ==
    \/ LogEmit
    \/ LogSnapshot
    \/ LogClear

SpecLog == InitLog /\ [][NextLog]_vars

(***************************************************************************)
(* Properties                                                              *)
(***************************************************************************)
ringStageDone == pc \in {"tree", "rings", "connect", "done"}

pathsComputed == pc \in {"trim", "paths2", "bounds", "ring", "tree", "rings", "connect", "done"}

requestedMin == getEnvInt(env, "NCCL_MIN_NCHANNELS")

requestedMax == getEnvInt(env, "NCCL_MAX_NCHANNELS")

Reverse(s) == [i \in 1..Len(s) |-> s[Len(s) + 1 - i]]

chainLinks(order) == [k \in 1..(Len(order) - 1) |-> mkTreeLink(order[k], order[k + 1])]

gpusConnected ==
    \A i \in 1..Len(getGpuNodes(system)) : \A j \in 1..Len(getGpuNodes(system)) :
        /\ hasPath(system.paths, getGpuNodes(system)[i].id, getGpuNodes(system)[j].id)
        /\ system.paths[pathKey(getGpuNodes(system)[i].id, getGpuNodes(system)[j].id)].type
               # PATH_DIS

withoutTimestamps(entries) ==
    [k \in 1..Len(entries) |->
        [step |-> entries[k].step, phase |-> entries[k].phase, action |-> entries[k].action,
         reason |-> entries[k].reason, data |-> entries[k].data]]

\* Whether no attempt of the ring search, at any speed from the starting one
\* down and with or without the same ordering per channel, reaches minChannels.
ringSearchFindsNothing ==
    LET gpus == getGpuNodes(system)
        speedArray == getSpeedArrays(getMinComputeCap(gpus), system.inter)
        ringMaxChannels == Max(1, maxChannels \div 2)
    IN  \A si \in startSpeedIndex(speedArray, 1, system, Len(gpus))..Len(speedArray) :
            \A sameChannels \in {0, 1} :
                searchForChannels(system, gpus, NCCL_TOPO_PATTERN_RING, speedArray[si],
                                  ringMaxChannels, sameChannels, 0).nChannels < minChannels

\* C1: every channel of the ring graph runInit returns, whether it comes from
\* the search, from the fallback or from a matched registry pattern, has a
\* ringOrder as long as the number of GPU nodes in which every GPU identity
\* occurs exactly once.
RingOrdersHamiltonian ==
    ringStageDone =>
        \A k \in 1..Len(ringGraph.channels) :
            LET order == ringGraph.channels[k].ringOrder
                gpus == getGpuNodes(system)
            IN  /\ Len(order) = Len(gpus)
                /\ \A g \in 1..Len(gpus) :
                       Cardinality({i \in 1..Len(order) : order[i] = gpus[g].id}) = 1

RingOrdersHamiltonianWitness ==
    /\ pc = "done"
    /\ Len(getGpuNodes(system)) >= 3
    /\ ringGraph.nChannels >= 2
    /\ ringGraph.id.kind = "graph-ring"

\* C2: for every channel of the returned ring graph and every consecutive
\* pair of its ringOrder, the closing pair included, the path map has an entry
\* for the pair whose bandwidth is at least the channel's bandwidth.
RingPairsHaveBandwidth ==
    ringStageDone =>
        \A k \in 1..Len(ringGraph.channels) :
            LET c == ringGraph.channels[k]
            IN  \A i \in 1..Len(c.ringOrder) :
                    LET u == c.ringOrder[i]
                        v == c.ringOrder[(i % Len(c.ringOrder)) + 1]
                    IN  /\ hasPath(system.paths, u, v)
                        /\ system.paths[pathKey(u, v)].bandwidth >= c.bandwidth

RingPairsHaveBandwidthWitness ==
    /\ pc = "done"
    /\ Len(getGpuNodes(system)) >= 3
    /\ ringGraph.nChannels >= 1
    /\ ringGraph.channels[1].bandwidth > 0

\* C3: the returned tree graph has exactly twice as many channels as the
\* returned ring graph, and its channel list has that length.
TreeChannelsDoubleRing ==
    pc = "done" =>
        /\ treeGraph.nChannels = 2 * ringGraph.nChannels
        /\ Len(treeGraph.channels) = treeGraph.nChannels

TreeChannelsDoubleRingWitness ==
    /\ pc = "done"
    /\ ringGraph.nChannels >= 2
    /\ treeGraph.nChannels = 2 * ringGraph.nChannels

\* C4: after channel setup, for every ring channel i, tree channel 2i has
\* exactly the parent-to-child edges of the chain over the ring order, in
\* that order, and tree channel 2i+1 those of the chain over the reversed
\* ring order.
TreeChannelsAreChains ==
    pc = "done" =>
        \A i \in 0..(ringGraph.nChannels - 1) :
            /\ 2 * i + 2 <= Len(treeGraph.channels)
            /\ treeGraph.channels[2 * i + 1].treeLinks
                   = chainLinks(ringGraph.channels[i + 1].ringOrder)
            /\ treeGraph.channels[2 * i + 2].treeLinks
                   = chainLinks(Reverse(ringGraph.channels[i + 1].ringOrder))

\* C5: when no attempt of the ring search reaches minChannels, the ring
\* graph it returns has zero channels and the decision log has an entry
\* recording that no feasible plan was found.
NoPlanMeansNoChannels ==
    (pc = "tree" /\ romeModelMatch = NullValue /\ ringSearchFindsNothing) =>
        /\ ringGraph.nChannels = 0
        /\ \E k \in 1..Len(log) :
               log[k].action = "No valid ring found - returning empty graph"

\* C6: the builder returns no system for a hardware description that refers
\* to a NUMA index outside 0..cpu.count-1.
InvalidConfigRejected ==
    ~ validConfig(config) => system = NoSystem

\* C7 as stated: the resolved bounds satisfy 1 <= min <= max <= 64, and when
\* the requested minimum exceeds the requested maximum both equal
\* min(64, requested minimum).
BoundsRepairedWheneverMinExceedsMax ==
    pc = "ring" =>
        /\ 1 <= minChannels /\ minChannels <= maxChannels /\ maxChannels <= MAXCHANNELS
        /\ requestedMin > requestedMax =>
               /\ minChannels = Min(MAXCHANNELS, requestedMin)
               /\ maxChannels = Min(MAXCHANNELS, requestedMin)

\* C7, amended: the resolved bounds satisfy 1 <= min <= max <= 64, and when
\* the requested maximum is not negative and the requested minimum exceeds
\* it, both equal min(64, requested minimum).
BoundsResolved ==
    pc = "ring" =>
        /\ 1 <= minChannels /\ minChannels <= maxChannels /\ maxChannels <= MAXCHANNELS
        /\ (requestedMax >= 0 /\ requestedMin > requestedMax) =>
               /\ minChannels = Min(MAXCHANNELS, requestedMin)
               /\ maxChannels = Min(MAXCHANNELS, requestedMin)

BoundsResolvedWitness ==
    /\ pc = "ring"
    /\ requestedMax >= 0
    /\ requestedMin > MAXCHANNELS
    /\ minChannels = MAXCHANNELS
    /\ maxChannels = MAXCHANNELS

\* C8: for a hardware description whose GPUs are connected, with both
\* channel options set to 1, runInit returns a ring graph of exactly one
\* channel and a tree graph of exactly two.
OneChannelWhenBoundsAreOne ==
    (pc = "done" /\ validConfig(config) /\ gpusConnected
     /\ requestedMin = 1 /\ requestedMax = 1) =>
        /\ ringGraph.nChannels = 1
        /\ treeGraph.nChannels = 2

\* C9: the second of two runs on the same input returns the same ring
\* channels, the same tree channels and the same decision-log contents as
\* the first, timestamps disregarded.
RunsAreIdentical ==
    (pc = "done" /\ run = 2) =>
        /\ ringGraph.channels = first[1].ringGraph.channels
        /\ treeGraph.channels = first[1].treeGraph.channels
        /\ withoutTimestamps(log) = withoutTimestamps(first[1].log)

\* C10: after computeAllPaths, the peer-proxy pass included, every stored
\* path has a bandwidth of at least 0, a hop count equal to the length of
\* its hop list, and the type LOC exactly when its source is its destination.
PathsWellFormed ==
    pathsComputed =>
        \A key \in DOMAIN system.paths :
            LET p == system.paths[key]
            IN  /\ p.bandwidth >= 0
                /\ p.count = Len(p.hops)
                /\ (p.type = PATH_LOC) <=> (p.fromId = p.toId)

PathsWellFormedWitness ==
    /\ pc = "bounds"
    /\ \E key \in DOMAIN system.paths : system.paths[key].type = PATH_PXN
    /\ \E key \in DOMAIN system.paths : system.paths[key].type = PATH_LOC

systemBuilt == pc # "build"

trimDone == pc \in {"paths2", "bounds", "ring", "tree", "rings", "connect", "done"}
            /\ ~ isMultiNode(suConfig)

\* Whether every link of the list has its reverse, of the same type and
\* bandwidth, in the list.
linksSymmetric(links) ==
    \A i \in 1..Len(links) : \E j \in 1..Len(links) :
        /\ links[j].fromId = links[i].toId
        /\ links[j].toId = links[i].fromId
        /\ links[j].type = links[i].type
        /\ links[j].bandwidth = links[i].bandwidth

\* C11: in every system the single-server builder or the multi-server
\* builder produced, and still after trimSystem, each stored link (a, b) has
\* a stored link (b, a) of the same link type and the same bandwidth.
LinksInBothDirections == systemBuilt => linksSymmetric(system.links)

\* Several servers were built and their NICs are linked to network switches.
LinksInBothDirectionsWitness ==
    /\ pc = "done"
    /\ isMultiNode(suConfig)
    /\ \E i \in 1..Len(system.links) : system.links[i].type = LINK_NET
    /\ \E i \in 1..Len(system.links) : system.links[i].type = LINK_NVL
    /\ linksSymmetric(system.links)

\* The identities the builder created that the system no longer holds.
removedIds == {buildNodes(config)[i].id : i \in 1..Len(buildNodes(config))} \ nodeIds(system)

gpuIdsOf(nodes) == {nodes[i].id : i \in {k \in 1..Len(nodes) : nodes[k].type = NODE_GPU}}

\* Whether the by-type index lists exactly the nodes, each under its type, in
\* creation order.
indexMatches(sys) ==
    /\ DOMAIN sys.nodesByType = {sys.nodes[i].type : i \in 1..Len(sys.nodes)}
    /\ \A t \in DOMAIN sys.nodesByType :
           sys.nodesByType[t] = SelectSeq(sys.nodes, LAMBDA n : n.type = t)

\* C12: after trimSystem every remaining node is a GPU or is connected to a
\* GPU by a chain of links taken in either direction, no GPU has been
\* removed, no remaining link and no stored path has a removed node as an
\* endpoint, and the by-type index lists exactly the remaining nodes.
TrimKeepsWhatReachesAGpu ==
    pc = "paths2" =>
        /\ \A i \in 1..Len(system.nodes) :
               \/ system.nodes[i].type = NODE_GPU
               \/ system.nodes[i].id \in reachableIds(system.links, gpuIdsOf(system.nodes))
        /\ gpuIdsOf(buildNodes(config)) \subseteq nodeIds(system)
        /\ \A i \in 1..Len(system.links) :
               system.links[i].fromId \notin removedIds /\ system.links[i].toId \notin removedIds
        /\ \A key \in DOMAIN system.paths :
               system.paths[key].fromId \notin removedIds
               /\ system.paths[key].toId \notin removedIds
        /\ indexMatches(system)

nvbDisabledSet == getEnvInt(env, "NCCL_NVB_DISABLE") # 0

\* The node types by identity, and the positions k of the hops of a path
\* that arrive at a GPU the path goes on from.
isGpuId(id) == \E i \in 1..Len(system.nodes) :
                   system.nodes[i].id = id /\ system.nodes[i].type = NODE_GPU

gpusPassed(p) == {k \in 1..(Len(p.hops) - 1) : isGpuId(p.hops[k].nodeId)}

\* The hop out of the GPU at position k is one the path search permits.
bounceAllowed(p, k) ==
    /\ k <= 1
    /\ p.hops[k + 1].linkType = LINK_NVL
    /\ isGpuId(p.hops[k + 1].nodeId)

pathsStored == pc \in {"trim", "bounds"}

\* With nvb-disable set no stored path has type NVB and no stored GPU-to-GPU
\* path passes through a GPU.
noBounceWhenDisabled ==
    nvbDisabledSet =>
        \A key \in DOMAIN system.paths :
            /\ system.paths[key].type # PATH_NVB
            /\ (isGpuId(key[1]) /\ isGpuId(key[2])) => gpusPassed(system.paths[key]) = {}

\* The claim as stated: with nvb-disable unset, every stored path passes
\* through a GPU only where the guard of the path search permits it.
NvbGuardOnEveryPath ==
    pathsStored =>
        /\ noBounceWhenDisabled
        /\ ~ nvbDisabledSet =>
               \A key \in DOMAIN system.paths :
                   \A k \in gpusPassed(system.paths[key]) : bounceAllowed(system.paths[key], k)

\* C13: with nvb-disable set, after computeAllPaths no stored path has type
\* NVB and no stored GPU-to-GPU path has a third GPU among its hops; with it
\* unset, a stored path that is not a peer-proxy (PXN) path passes through a
\* GPU other than its source only when that GPU was reached in at most one
\* hop, the link taken out of it is NVLink and the next node is a GPU.
NvbGuardOnSearchedPaths ==
    pathsStored =>
        /\ noBounceWhenDisabled
        /\ ~ nvbDisabledSet =>
               \A key \in DOMAIN system.paths :
                   system.paths[key].type # PATH_PXN =>
                       \A k \in gpusPassed(system.paths[key]) :
                           bounceAllowed(system.paths[key], k)

\* With nvb-disable unset a GPU-to-GPU path of type NVB through a second GPU
\* is stored.
NvbGuardOnSearchedPathsWitness ==
    /\ pathsStored
    /\ ~ nvbDisabledSet
    /\ \E key \in DOMAIN system.paths :
           /\ system.paths[key].type = PATH_NVB
           /\ isGpuId(key[1]) /\ isGpuId(key[2])
           /\ gpusPassed(system.paths[key]) # {}
           /\ \A k \in gpusPassed(system.paths[key]) : bounceAllowed(system.paths[key], k)

\* The ring search of the attempt, step by step, returns what searchForChannels
\* returns in one piece.
AttemptIsSearchForChannels ==
    (attempt # NoAttempt /\ attempt[1].done) =>
        searchOutcome(attempt[1].st) =
            searchForChannels(system, getGpuNodes(system), NCCL_TOPO_PATTERN_RING,
                              attempt[1].speed, attempt[1].maxChannels,
                              attempt[1].sameChannels, 0)

hasLinkAt(links, fromId, toId, type, bw) ==
    \E i \in 1..Len(links) :
        /\ links[i].fromId = fromId /\ links[i].toId = toId
        /\ links[i].type = type /\ links[i].bandwidth = bw

multiNodeDone == pc = "done" /\ isMultiNode(suConfig)

\* C15: for a scale unit with serverCount > 1, runInit returns a system
\* whose inter-node flag is true, that has exactly railCount network-switch
\* nodes for rail-optimized (exactly one for fat-tree), in which NIC i of
\* every server is linked in both directions at NIC line rate to switch
\* (i mod railCount) (or to the single switch), whose path map is empty, and
\* whose ring graph and tree graph both have zero channels.
MultiServerPlanIsBare ==
    multiNodeDone =>
        /\ system.inter
        /\ Len(SelectSeq(system.nodes, LAMBDA n : n.type = NODE_NET))
               = IF suConfig[1].networkType = "rail-optimized" THEN suConfig[1].railCount ELSE 1
        /\ \A s \in 0..(suConfig[1].serverCount - 1) : \A i \in 0..(config.nic.count - 1) :
               \E sw \in {IF suConfig[1].networkType = "rail-optimized"
                          THEN i % suConfig[1].railCount ELSE 0} :
                   /\ netId(sw) \in nodeIds(system)
                   /\ prefixId(s, nicId(i)) \in nodeIds(system)
                   /\ hasLinkAt(system.links, prefixId(s, nicId(i)), netId(sw), LINK_NET,
                                config.nic.speed)
                   /\ hasLinkAt(system.links, netId(sw), prefixId(s, nicId(i)), LINK_NET,
                                config.nic.speed)
        /\ DOMAIN system.paths = {}
        /\ ringGraph.nChannels = 0 /\ ringGraph.channels = <<>>
        /\ treeGraph.nChannels = 0 /\ treeGraph.channels = <<>>

\* Two servers with two NICs each on two rails: NIC 1 of the second server
\* is linked to switch 1.
MultiServerPlanIsBareWitness ==
    /\ multiNodeDone
    /\ suConfig[1].networkType = "rail-optimized"
    /\ suConfig[1].railCount = 2
    /\ config.nic.count = 2
    /\ hasLinkAt(system.links, prefixId(1, nicId(1)), netId(1), LINK_NET, config.nic.speed)
    /\ ringGraph.nChannels = 0

\* The entries are numbered 0, 1, ... in append order, and filter-by-phase
\* returns exactly the entries of the phase, in append order.
logNumbered ==
    /\ \A k \in 1..Len(log) : log[k].step = k - 1
    /\ \A i \in 1..Len(log) : \A j \in 1..Len(log) : i < j => log[i].step < log[j].step
    /\ \A phase \in LogPhases :
           /\ \A i \in 1..Len(getEntriesByPhase(log, phase)) :
                  getEntriesByPhase(log, phase)[i].phase = phase
           /\ \A i \in 1..Len(getEntriesByPhase(log, phase)) :
                  \A j \in 1..Len(getEntriesByPhase(log, phase)) :
                      i < j => getEntriesByPhase(log, phase)[i].step
                                   < getEntriesByPhase(log, phase)[j].step
           /\ Len(getEntriesByPhase(log, phase))
                  = Cardinality({k \in 1..Len(log) : log[k].phase = phase})

\* A step that appends: the log is one entry longer and keeps what it held,
\* and what a caller holds from an earlier getEntries is as it was.
appendStep ==
    Len(log') > Len(log) =>
        /\ Len(log') = Len(log) + 1
        /\ SubSeq(log', 1, Len(log)) = log
        /\ snapshot # NoSnapshot => heldEntries' = heldEntries

\* C16: after any sequence of appends to a fresh decision log the k-th entry
\* (counting from 0) has step index k, so step indices are strictly
\* increasing in append order; the length equals the number of appends (it
\* is 0 for the fresh log and each append adds one); filter-by-phase returns
\* the matching entries in append order; and a snapshot taken earlier is not
\* changed by later appends.
LogAppendOnly == (Len(log) = 0) /\ [](pc = "log" => logNumbered) /\ [][appendStep]_vars

\* A caller holds the snapshot of a one-entry log that has since grown to
\* three entries of two phases.
LogAppendOnlyWitness ==
    /\ pc = "log"
    /\ snapshot # NoSnapshot
    /\ Len(heldEntries) = 1
    /\ Len(log) = 3
    /\ SubSeq(log, 1, 1) = heldEntries
    /\ Len(getEntriesByPhase(log, "searchInit")) = 2
    /\ getEntriesByPhase(log, "searchInit")[2].step = 2

ringsSetUp == pc \in {"connect", "done"}

isDistinct(order) == \A i \in 1..Len(order) : \A j \in 1..Len(order) : i # j => order[i] # order[j]

\* k applications of the map f to x.
RECURSIVE follow(_, _, _)
follow(f, x, k) == IF k = 0 THEN x ELSE follow(f, f[x], k - 1)

\* Whether the prev/next maps of the channel close its ring order into a loop.
isCircular(channel) ==
    LET order == channel.ringOrder
        n == Len(order)
    IN  /\ DOMAIN channel.ringNext = Range(order)
        /\ DOMAIN channel.ringPrev = Range(order)
        /\ \A i \in 1..n : channel.ringNext[order[i]] = order[(i % n) + 1]
        /\ \A g \in Range(order) : channel.ringPrev[channel.ringNext[g]] = g
        /\ {follow(channel.ringNext, order[1], k) : k \in 0..(n - 1)} = Range(order)
        /\ \A k \in 1..(n - 1) : follow(channel.ringNext, order[1], k) # order[1]
        /\ follow(channel.ringNext, order[1], n) = order[1]

\* C17: after ring setup, for every channel whose ring order is a sequence
\* of n distinct GPUs, ringNext maps order[i] to order[(i+1) mod n], ringPrev
\* is the inverse of ringNext, and following ringNext from order[0] visits
\* all n GPUs exactly once and returns to order[0] after exactly n steps.
RingMapsAreCircular ==
    ringsSetUp =>
        \A c \in 1..Len(ringGraph.channels) :
            (Len(ringGraph.channels[c].ringOrder) > 0
             /\ isDistinct(ringGraph.channels[c].ringOrder)) =>
                isCircular(ringGraph.channels[c])

\* The ring of a three-GPU channel is wired: the last GPU leads to the first.
RingMapsAreCircularWitness ==
    /\ ringsSetUp
    /\ \E c \in 1..Len(ringGraph.channels) :
           /\ Len(ringGraph.channels[c].ringOrder) = 3
           /\ isDistinct(ringGraph.channels[c].ringOrder)
           /\ ringGraph.channels[c].ringNext[ringGraph.channels[c].ringOrder[3]]
                  = ringGraph.channels[c].ringOrder[1]
           /\ isCircular(ringGraph.channels[c])

attemptRemaining == attempt[1].st.state.remainingBw

\* The ring of the channel the attempt accepted last, and its edges, the
\* closing edge included.
lastRing == attempt[1].st.channels[Len(attempt[1].st.channels)].ringOrder

\* The remaining bandwidth is what it was when the search for the accepted
\* channel began, less the speed on every edge of the channel's ring.
consumedExactly ==
    /\ DOMAIN attemptRemaining = DOMAIN attempt[1].chBefore
    /\ \A key \in DOMAIN attemptRemaining :
           attemptRemaining[key] =
               attempt[1].chBefore[key]
               - (IF key \in Range(ringEdges(lastRing)) THEN attempt[1].speed ELSE 0)

\* C18: within one multi-channel attempt at speed s, after a channel is
\* accepted the remaining-bandwidth entry of every edge of its ring (the
\* closing edge included) is exactly s lower than before the search for that
\* channel began and every other entry is unchanged; after a ring search
\* from a starting GPU fails, the remaining-bandwidth map is exactly as it
\* was before that search started.
RingConsumesSpeedOnce ==
    (attempt # NoAttempt /\ Len(getGpuNodes(system)) > 1) =>
        /\ attempt[1].last = "accepted" => consumedExactly
        /\ attempt[1].last = "failed" => attemptRemaining = attempt[1].startBefore

\* The ring graph has just been returned by the ring search.
ringSearchReturned == pc = "tree" /\ romeModelMatch = NullValue

\* The aggregate bandwidths (speed x channels) of the attempts of the ring
\* search that produced at least minChannels channels, as it logged them.
qualifyingTotals ==
    {log[k].data[3] : k \in {i \in 1..Len(log) : log[i].action = "Found channels"}}

\* C19: the graph the ring search returns has speed x channels at least as
\* large as that of every attempt of the same call that produced at least
\* minChannels channels.
ReturnedGraphIsBestAttempt ==
    ringSearchReturned =>
        \A total \in qualifyingTotals : ringGraph.speedIntra * ringGraph.nChannels >= total

\* The ring graph is the result of an attempt of the ring search (not of the
\* pattern matcher, and not the fallback graph).
ringFromAttempt ==
    /\ ringSearchReturned
    /\ ringGraph.id.kind = "graph-ring"
    /\ qualifyingTotals # {}

\* C20: every ring found by an attempt that runs with intra-node path-type
\* tier T uses only ring edges (u, v) whose stored path type is at or better
\* than T: the rings of the graph the ring search returns, found by the
\* attempt whose tier is the graph's typeIntra, have no edge of a worse type.
RingEdgesWithinTier ==
    ringFromAttempt =>
        \A c \in 1..Len(ringGraph.channels) :
            \A e \in Range(ringEdges(ringGraph.channels[c].ringOrder)) :
                e[1] # e[2] =>
                    /\ hasPath(system.paths, e[1], e[2])
                    /\ system.paths[pathKey(e[1], e[2])].type <= ringGraph.typeIntra

(***************************************************************************)
(* The domination rule of spfaFromSource                                   *)
(***************************************************************************)
relaxed == pc = "spfa" /\ frame # NoFrame /\ frame[1].last # <<>>

lastRelax == frame[1].last[1]

\* Whether the GPU passthrough guard let the last examined link through, so
\* that a path to the neighbor was discovered.
relaxDiscovered ==
    LET currentNode == buildNodeMap(system)[lastRelax.currentId]
    IN  ~ (/\ currentNode.type = NODE_GPU
           /\ currentNode.id # frame[1].sourceId
           /\ \/ getEnvInt(env, "NCCL_NVB_DISABLE") # 0
              \/ lastRelax.edge.link.type # LINK_NVL
              \/ lastRelax.edge.neighbor.type # NODE_GPU
              \/ lastRelax.currentEntry.hopCount > 1)

\* The last step discovered a path to a node that already had an entry.
relaxedExisting ==
    /\ relaxed
    /\ relaxDiscovered
    /\ lastRelax.edge.neighbor.id \in DOMAIN lastRelax.before

relaxOld == lastRelax.before[lastRelax.edge.neighbor.id]

relaxNewBw == Min(lastRelax.currentEntry.bandwidth, lastRelax.edge.link.bandwidth)

relaxNewCount == lastRelax.currentEntry.hopCount + 1

relaxReplaced == frame[1].best # lastRelax.before

\* C21 as stated: a newly discovered path to a node that already has an entry
\* replaces the entry if and only if the old bandwidth is 0, or the old hop
\* count is greater than the hop count of the new path itself and the old
\* bandwidth is smaller than the new one.
ReplacedIffFewerHopsThanOld ==
    relaxedExisting =>
        (relaxReplaced <=>
            \/ relaxOld.bandwidth = 0
            \/ (relaxOld.hopCount > relaxNewCount /\ relaxOld.bandwidth < relaxNewBw))

\* C21: a newly discovered path to a node that already has an entry replaces
\* the entry if and only if the old bandwidth is smaller than the new one and
\* the old bandwidth is 0 or the old hop count is greater than the hop count
\* of the path to the node being expanded (one less than the new path's own
\* hop count); the entry replacing it has the new path's bandwidth and hop
\* count, and the path types play no part.
ReplacedIffHopsNotFewerThanOld ==
    relaxedExisting =>
        /\ relaxReplaced <=>
               /\ relaxOld.bandwidth = 0 \/ relaxOld.hopCount > relaxNewCount - 1
               /\ relaxOld.bandwidth < relaxNewBw
        /\ relaxReplaced =>
               /\ frame[1].best[lastRelax.edge.neighbor.id].bandwidth = relaxNewBw
               /\ frame[1].best[lastRelax.edge.neighbor.id].hopCount = relaxNewCount

\* A path of the same hop count as the old one, and of a larger bandwidth,
\* has replaced the old one.
ReplacedIffHopsNotFewerThanOldWitness ==
    /\ relaxedExisting
    /\ relaxReplaced
    /\ relaxOld.hopCount = relaxNewCount
    /\ relaxOld.bandwidth < relaxNewBw

\* The stepwise relaxation ends with the entries spfaFromSource returns.
SpfaStepsAreSpfaFromSource ==
    (pc = "spfa" /\ frame # NoFrame /\ frame[1].done) =>
        frame[1].best = spfaFromSource(frame[1].sourceId, buildAdjacency(system),
                                       buildNodeMap(system),
                                       getEnvInt(env, "NCCL_NVB_DISABLE") # 0)

(***************************************************************************)
(* What spfaFromSource leaves for computeAllPaths to store, against the    *)
(* routes of the system                                                    *)
(***************************************************************************)
spfaDone == pc = "spfa" /\ frame # NoFrame /\ frame[1].done

\* Whether a route that has reached node id after hopsSoFar links may go on
\* over the link: the GPU passthrough guard.
guardPermits(id, link, hopsSoFar) ==
    LET nodeMap == buildNodeMap(system)
    IN  \/ nodeMap[id].type # NODE_GPU
        \/ id = frame[1].sourceId
        \/ /\ getEnvInt(env, "NCCL_NVB_DISABLE") = 0
           /\ link.type = LINK_NVL
           /\ nodeMap[link.toId].type = NODE_GPU
           /\ hopsSoFar <= 1

\* The ends of the permitted routes of one link more than those of shorter,
\* which have k links: the node a route ends at with the route's bottleneck
\* bandwidth.
longerRoutes(shorter, k) ==
    {[node |-> system.links[i].toId, bw |-> Min(r.bw, system.links[i].bandwidth)] :
         <<r, i>> \in {<<r, i>> \in shorter \X (1..Len(system.links)) :
                          /\ system.links[i].fromId = r.node
                          /\ system.links[i].toId \in nodeIds(system)
                          /\ guardPermits(r.node, system.links[i], k)}}

\* The ends of the permitted routes from the source by number of links:
\* element k + 1 holds those of the routes of k links. A route that visits no
\* node twice has fewer links than the system has nodes.
RECURSIVE routeEnds(_)
routeEnds(layers) ==
    IF Len(layers) >= Len(system.nodes) THEN layers
    ELSE routeEnds(Append(layers, longerRoutes(layers[Len(layers)], Len(layers) - 1)))

routesFromSource == routeEnds(<<{[node |-> frame[1].sourceId, bw |-> LOC_BW]}>>)

\* The hop counts at which a permitted route reaches dest.
routeLengths(layers, dest) ==
    {k \in 0..(Len(layers) - 1) : \E r \in layers[k + 1] : r.node = dest}

\* The bottlenecks of the permitted routes to dest of the minimum hop count.
shortestBottlenecks(layers, dest) ==
    {r.bw : r \in {r \in layers[SetMin(routeLengths(layers, dest)) + 1] : r.node = dest}}

\* The destinations computeAllPaths stores a path for, for the source.
destsOfSource ==
    LET gpus == {n.id : n \in Range(nodesOfType(system, NODE_GPU))}
        nics == {n.id : n \in Range(nodesOfType(system, NODE_NIC))}
    IN  IF frame[1].sourceId \in gpus THEN gpus \cup nics ELSE gpus

storedFor(dest) == storedPath(frame[1].best, frame[1].sourceId, dest)

\* C22: for each source and each destination computeAllPaths stores a path
\* for, before the peer-proxy pass the stored hop count is the minimum number
\* of links over the routes the GPU passthrough guard permits, the stored
\* bandwidth is the largest bottleneck bandwidth among the permitted routes of
\* that hop count, and the entry is DIS with bandwidth 0 exactly when no
\* permitted route exists.
StoredPathIsWidestShortestRoute ==
    spfaDone =>
        \A layers \in {routesFromSource} :
            \A dest \in destsOfSource :
                /\ (storedFor(dest).type = PATH_DIS /\ storedFor(dest).bandwidth = 0)
                       <=> routeLengths(layers, dest) = {}
                /\ routeLengths(layers, dest) # {} =>
                       /\ storedFor(dest).count = SetMin(routeLengths(layers, dest))
                       /\ storedFor(dest).bandwidth = SetMax(shortestBottlenecks(layers, dest))

\* A destination is reached by permitted routes of the minimum hop count
\* with different bottlenecks.
StoredPathIsWidestShortestRouteWitness ==
    /\ spfaDone
    /\ \E layers \in {routesFromSource} :
           \E dest \in destsOfSource :
               /\ routeLengths(layers, dest) # {}
               /\ Cardinality(shortestBottlenecks(layers, dest)) >= 2

(***************************************************************************)
(* The attempts of ncclTopoCompute                                         *)
(***************************************************************************)
searching == pc = "search" /\ frame # NoFrame

\* The stepwise call ends with the bestResult the two phases of
\* ncclTopoCompute end with, after the same number of iterations, when both
\* start from the same global iteration count.
SearchStepsAreNcclTopoCompute ==
    (searching /\ frame[1].phase = "done") =>
        \A ctx \in {searchContextOf(frame[1])} :
            \A whole \in {searchPhase2(ctx, speedLoop(ctx, ctx.speedIndex,
                              [bestResult |-> NoResult,
                               globalIterations |-> frame[1].start,
                               emits |-> <<>>, phase1Done |-> FALSE]))} :
                /\ frame[1].bestResult = whole.bestResult
                /\ frame[1].globalIterations = whole.globalIterations

\* The last two attempts both belong to Phase 1.
twoPhase1Attempts ==
    /\ searching
    /\ frame[1].prev # <<>>
    /\ frame[1].last[1].phase = "phase1"
    /\ frame[1].prev[1].phase = "phase1"

\* The parameters an attempt ran with.
paramsOf(a) ==
    [speed |-> a.speed, sameChannels |-> a.sameChannels, pattern |-> a.pattern,
     typeIntra |-> a.typeIntra, typeInter |-> a.typeInter, crossNic |-> a.crossNic]

\* The speed after speed in the array.
nextLowerSpeed(speedArray, speed) ==
    speedArray[(CHOOSE i \in 1..Len(speedArray) : speedArray[i] = speed) + 1]

\* Which relaxation is the first applicable one after an attempt with
\* parameters p: "a" to "e", or "f" when none of them is.
firstApplicable(ctx, p) ==
    IF p.sameChannels = 1 THEN "a"
    ELSE IF ctx.ccMin >= 90 /\ p.pattern = NCCL_TOPO_PATTERN_BALANCED_TREE THEN "b"
    ELSE IF p.typeIntra < ctx.typeIntraMax THEN "c"
    ELSE IF ctx.system.inter /\ p.typeInter < ctx.typeInterMax THEN "d"
    ELSE IF ctx.system.inter /\ getEnvInt(env, "NCCL_CROSS_NIC") \in {2, -2} /\ p.crossNic = 0
    THEN "e"
    ELSE "f"

\* The parameters p with the one relaxation applied and nothing else changed
\* but sameChannels.
oneRelaxation(ctx, p) ==
    LET step == firstApplicable(ctx, p)
    IN  IF step = "a" THEN [p EXCEPT !.sameChannels = 0]
        ELSE IF step = "b"
        THEN [p EXCEPT !.pattern = NCCL_TOPO_PATTERN_RING, !.sameChannels = 1]
        ELSE IF step = "c" THEN [p EXCEPT !.typeIntra = @ + 1, !.sameChannels = 1]
        ELSE IF step = "d" THEN [p EXCEPT !.typeInter = @ + 1, !.sameChannels = 1]
        ELSE IF step = "e" THEN [p EXCEPT !.crossNic = 1, !.sameChannels = 1]
        ELSE [p EXCEPT !.speed = nextLowerSpeed(ctx.speedArray, p.speed), !.sameChannels = 1]

\* The same, the step to the next lower speed also returning the pattern,
\* the path-type tiers and crossNic to the values Phase 1 began with.
oneRelaxationOrRestart(ctx, p) ==
    IF firstApplicable(ctx, p) = "f"
    THEN [speed |-> nextLowerSpeed(ctx.speedArray, p.speed), sameChannels |-> 1,
          pattern |-> ctx.patternNum, typeIntra |-> ctx.typeIntra,
          typeInter |-> ctx.typeInter,
          crossNic |-> IF ctx.crossNic = 2 THEN 0 ELSE ctx.crossNic]
    ELSE oneRelaxation(ctx, p)

\* C23 as stated: between two consecutive attempts of Phase 1 exactly one
\* relaxation is applied, the first applicable one of (a) to (e), otherwise
\* the next lower speed; every step but (a) sets sameChannels to 1, nothing
\* else changes, and the speed never increases.
ExactlyOneRelaxationBetweenAttempts ==
    twoPhase1Attempts =>
        /\ paramsOf(frame[1].last[1])
               = oneRelaxation(searchContextOf(frame[1]), paramsOf(frame[1].prev[1]))
        /\ frame[1].last[1].speed <= frame[1].prev[1].speed

\* C23: between two consecutive attempts of Phase 1 the first applicable
\* relaxation of (a) to (e) is applied and nothing else changes but
\* sameChannels, which every step but (a) sets to 1; when none is applicable
\* the next attempt runs at the next lower speed with sameChannels = 1 and
\* with the pattern, typeIntra, typeInter and crossNic back at the values
\* Phase 1 began with; the speed never increases.
OneRelaxationOrRestartBetweenAttempts ==
    twoPhase1Attempts =>
        /\ paramsOf(frame[1].last[1])
               = oneRelaxationOrRestart(searchContextOf(frame[1]), paramsOf(frame[1].prev[1]))
        /\ frame[1].last[1].speed <= frame[1].prev[1].speed

\* An attempt at a lower speed has followed one whose typeIntra had been
\* raised above the starting tier.
OneRelaxationOrRestartBetweenAttemptsWitness ==
    /\ twoPhase1Attempts
    /\ frame[1].last[1].speed < frame[1].prev[1].speed
    /\ frame[1].prev[1].typeIntra > searchContextOf(frame[1]).typeIntra
    /\ frame[1].last[1].typeIntra = searchContextOf(frame[1]).typeIntra


(***************************************************************************)
(* The iteration budgets of the search                                     *)
(***************************************************************************)
attempted == searching /\ frame[1].last # <<>>

lastAttempt == frame[1].last[1]

\* The iteration budget of an attempt that ran with the parameters of a.
budgetOf(a) == IF a.sameChannels = 1 THEN 256 ELSE 16384

\* Whether a ended with a counter beyond its budget: the counter of the
\* ring search it ended in, or the global counter it advanced.
exhausted(a) ==
    \/ a.iterations > budgetOf(a)
    \/ a.globalIterations > 524288 /\ a.globalIterations > a.before

\* The flag is set exactly by an exhausted budget, and the recursion stops at
\* the call that finds the budget exceeded: neither counter goes further.
BudgetRespected ==
    attempted =>
        /\ lastAttempt.timedOut <=> exhausted(lastAttempt)
        /\ lastAttempt.iterations <= budgetOf(lastAttempt) + 1
        /\ lastAttempt.globalIterations <= Max(lastAttempt.before, 524288) + 1
        /\ lastAttempt.before >= 524288 /\ Len(searchContextOf(frame[1]).gpus) >= 2
               => lastAttempt.nChannels = 0 /\ lastAttempt.timedOut

\* An attempt that ends without minChannels channels, timed out or not,
\* leaves the captured result as it was.
KeepsCaptured ==
    (searching /\ frame'[1].phase # "phase2" /\ frame[1].phase = "phase1"
        /\ frame'[1].last[1].nChannels < minChannels)
        => frame'[1].bestResult = frame[1].bestResult

searchDone == searching /\ frame[1].phase = "done"

\* How many relaxations the cascade can still apply to the locals rs: one
\* for each tier left, twice over because each is followed by a return of
\* sameChannels to 1, and one when sameChannels is 1.
relaxationsLeft(ctx, rs) ==
    2 * ((IF ctx.ccMin >= 90 /\ rs.localPattern = NCCL_TOPO_PATTERN_BALANCED_TREE THEN 1 ELSE 0)
         + Max(0, ctx.typeIntraMax - rs.localTypeIntra)
         + (IF ctx.system.inter
            THEN Max(0, ctx.typeInterMax - rs.localTypeInter)
                 + (IF ctx.crossNic = 2 /\ rs.localCrossNic = 0 THEN 1 ELSE 0)
            ELSE 0))
    + (IF rs.sameChannels = 1 THEN 1 ELSE 0)

\* A bound on the number of attempts the call in f can still make: those of
\* the relaxation loop at the current speed, those at the speeds below it,
\* and one per speed for Phase 2.
attemptsLeft(ctx, f) ==
    IF f.phase = "done" THEN 0
    ELSE IF f.phase = "phase2" THEN f.optSi - ctx.speedIndex + 1
    ELSE relaxationsLeft(ctx, f.rs) + 1
         + (Len(ctx.speedArray) - f.si) * (relaxationsLeft(ctx, relaxationLocals(ctx)) + 1)
         + Len(ctx.speedArray)

\* Every attempt lowers the bound, which never goes below 0.
FewerAttemptsLeft ==
    searching =>
        \A ctx \in {searchContextOf(frame[1])} :
            /\ attemptsLeft(ctx, frame'[1]) >= 0
            /\ attemptsLeft(ctx, frame'[1]) < attemptsLeft(ctx, frame[1])

\* C24: the search terminates on every system: once the per-attempt
\* iteration budget (256 with sameChannels = 1, otherwise 16384) or the
\* global budget of 524288 iterations is exceeded, the recursion extends no
\* further ring, sets the timed-out flag and unwinds; the outer loops end
\* after finitely many attempts (each attempt lowers a bound on the number
\* of attempts to come), and the call ends with the result captured so far.
SearchEndsWithinBudgets ==
    /\ []BudgetRespected
    /\ [][KeepsCaptured /\ FewerAttemptsLeft]_vars

\* The call has ended on an attempt that timed out, with a captured result.
SearchEndsWithinBudgetsWitness ==
    /\ searchDone
    /\ attempted
    /\ lastAttempt.timedOut
    /\ frame[1].bestResult # NoResult
    /\ frame[1].start > 0


(***************************************************************************)
(* The bandwidth the returned rings take from each GPU pair                *)
(***************************************************************************)
\* The graph ncclTopoCompute returns once its loops have ended.
returnedGraph ==
    searchResult(frame[1].pattern, searchContextOf(frame[1]).gpus, now,
                 [bestResult |-> frame[1].bestResult, emits |-> <<>>]).graph

\* The number of channels of graph in whose ring v immediately follows u.
channelsOver(graph, u, v) ==
    Cardinality({c \in 1..Len(graph.channels) :
                    <<u, v>> \in Range(ringEdges(graph.channels[c].ringOrder))})

\* The bandwidth of the stored path from u to v, 0 when none is stored.
storedBandwidth(u, v) ==
    IF hasPath(system.paths, u, v) THEN system.paths[pathKey(u, v)].bandwidth ELSE 0

searchGpuIds == {searchContextOf(frame[1]).gpus[k].id : k \in 1..Len(searchContextOf(frame[1]).gpus)}

\* C25: in any graph returned by the search for a system with two or more
\* GPUs, for every ordered GPU pair (u, v), the graph's speed multiplied by
\* the number of channels in whose ring v immediately follows u does not
\* exceed the bandwidth of the stored path from u to v.
RingsWithinPathBandwidth ==
    (searchDone /\ Cardinality(searchGpuIds) >= 2) =>
        \A graph \in {returnedGraph} :
            \A u \in searchGpuIds, v \in searchGpuIds :
                graph.speedIntra * channelsOver(graph, u, v) <= storedBandwidth(u, v)

\* A returned graph of three GPUs or more in which several channels go over
\* the same GPU pair, at a speed above a quarter of the pair's bandwidth.
RingsWithinPathBandwidthWitness ==
    /\ searchDone
    /\ Cardinality(searchGpuIds) >= 3
    /\ \E u \in searchGpuIds, v \in searchGpuIds :
           /\ channelsOver(returnedGraph, u, v) >= 2
           /\ 4 * returnedGraph.speedIntra > storedBandwidth(u, v)


(***************************************************************************)
(* The PXN pass of computeAllPaths                                         *)
(***************************************************************************)
\* computeAllPaths has just run on the system.
pxnPassDone == pc \in {"trim", "bounds"}

\* The paths of the system before the PXN pass: those Step 4 stores.
pathsBeforePxn ==
    LET gpuNodes == nodesOfType(system, NODE_GPU)
        nicNodes == nodesOfType(system, NODE_NIC)
    IN  spfaStoredPaths(spfaResults(gpuNodes \o nicNodes, buildAdjacency(system),
                                    buildNodeMap(system),
                                    getEnvInt(env, "NCCL_NVB_DISABLE") # 0),
                        gpuNodes, nicNodes)

pathGpuIds == {nodesOfType(system, NODE_GPU)[k].id : k \in 1..Len(nodesOfType(system, NODE_GPU))}

pathNicIds == {nodesOfType(system, NODE_NIC)[k].id : k \in 1..Len(nodesOfType(system, NODE_NIC))}

\* The GPUs with the smallest path type to the NIC on the paths before and,
\* among these, the highest bandwidth.
localGpus(before, nic) ==
    {l \in pathGpuIds :
        \A g \in pathGpuIds :
            \/ before[pathKey(l, nic)].type < before[pathKey(g, nic)].type
            \/ /\ before[pathKey(l, nic)].type = before[pathKey(g, nic)].type
               /\ before[pathKey(l, nic)].bandwidth >= before[pathKey(g, nic)].bandwidth}

\* The local GPU of a NIC: of the GPUs that tie in type and bandwidth, the
\* first in creation order.
localGpu(before, nic) ==
    LET gpuNodes == nodesOfType(system, NODE_GPU)
    IN  gpuNodes[SetMin({k \in 1..Len(gpuNodes) : gpuNodes[k].id \in localGpus(before, nic)})].id

\* The conditions under which the path from g to nic is replaced by the
\* route through l.
proxyConditions(before, g, nic, l) ==
    /\ getEnvInt(env, "NCCL_PXN_DISABLE") = 0
    /\ g # l
    /\ before[pathKey(l, nic)].type
           <= (IF getEnvInt(env, "NCCL_PXN_C2C") # 0 THEN PATH_P2C ELSE PATH_PXB)
    /\ before[pathKey(l, g)].type <= PATH_NVL
    /\ \/ before[pathKey(l, nic)].bandwidth > before[pathKey(g, nic)].bandwidth
       \/ before[pathKey(g, nic)].type > PATH_PXN

\* C26: after computeAllPaths, a GPU-to-NIC path from GPU g has type PXN if
\* and only if pxn-disable is unset and, for the NIC's local GPU L with
\* g # L, on the paths computed before the pass type(L to NIC) is at or better
\* than the threshold class (P2C when pxn-c2c is set, else PXB), type(L to g)
\* is at or better than NVL, and bandwidth(L to NIC) > bandwidth(g to NIC) or
\* type(g to NIC) is worse than PXN; each such path has bandwidth
\* min(bandwidth(L to g), bandwidth(L to NIC)) and as hop count the sum of
\* those of g to L and L to NIC; no GPU-to-GPU or NIC-to-GPU path is changed.
ProxyPathsExactlyWhenBetter ==
    pxnPassDone =>
        \A before \in {pathsBeforePxn} :
            /\ \A g \in pathGpuIds, nic \in pathNicIds :
                   /\ system.paths[pathKey(g, nic)].type = PATH_PXN
                          <=> proxyConditions(before, g, nic, localGpu(before, nic))
                   /\ \A l \in {localGpu(before, nic)} :
                          proxyConditions(before, g, nic, l) =>
                              /\ system.paths[pathKey(g, nic)].bandwidth
                                     = Min(before[pathKey(l, g)].bandwidth,
                                           before[pathKey(l, nic)].bandwidth)
                              /\ system.paths[pathKey(g, nic)].count
                                     = before[pathKey(g, l)].count + before[pathKey(l, nic)].count
            /\ \A key \in DOMAIN before :
                   key[2] \in pathGpuIds => system.paths[key] = before[key]
            /\ DOMAIN system.paths = DOMAIN before

\* A system with a NIC towards which one GPU got a proxy path and another
\* GPU, which is not the local one, kept its path.
ProxyPathsExactlyWhenBetterWitness ==
    /\ pxnPassDone
    /\ \E nic \in pathNicIds, g \in pathGpuIds, h \in pathGpuIds :
           /\ system.paths[pathKey(g, nic)].type = PATH_PXN
           /\ system.paths[pathKey(h, nic)].type # PATH_PXN
           /\ h # localGpu(pathsBeforePxn, nic)


(***************************************************************************)
(* The GPU permutation search of the pattern matcher                       *)
(***************************************************************************)
permuted == pc = "perm" /\ frame # NoFrame

\* Whether, with GPU i of the model taken as GPU p[i] of the topology, the
\* model's GPU-to-NUMA array and its connectivity matrix equal the
\* topology's.
describesUnder(ref, topo, p) ==
    /\ \A i \in 1..ref.nGpus : ref.gpuNuma[i] = topo.gpuNuma[p[i] + 1]
    /\ \A i \in 1..ref.nGpus, j \in 1..ref.nGpus :
           ref.connMatrix[(i - 1) * ref.nGpus + j]
               = topo.connMatrix[p[i] * ref.nGpus + p[j] + 1]

\* C27: when the GPU permutation search succeeds, the permutation it
\* leaves is a bijection on 0..nGpus-1 under which the pattern's GPU-to-NUMA
\* array and connectivity matrix equal the topology's; when it finishes
\* within the budget of 100,000 recursive steps it fails only if no such
\* permutation exists; and when it fails, by exhaustion or by budget, the
\* array is back in its initial order and the pattern does not match.
PermutationFoundOrRestored ==
    permuted =>
        \A topo \in {extractTopology(config)}, ref \in {frame[1].ref}, res \in {frame[1].res} :
            /\ res.ok =>
                   /\ res.perm \in PermArrays(ref.nGpus)
                   /\ describesUnder(ref, topo, res.perm)
            /\ (~ res.ok /\ res.count <= 100000) =>
                   \A p \in PermArrays(ref.nGpus) : ~ describesUnder(ref, topo, p)
            /\ ~ res.ok =>
                   /\ res.perm = [i \in 1..ref.nGpus |-> i - 1]
                   /\ gpuPermuted(<<ref>>, topo, system, 1, <<>>, ref, res).match = NoMatch

\* A search of three GPUs or more that ran out of budget although a
\* permutation exists, after it had moved the array.
PermutationFoundOrRestoredWitness ==
    /\ permuted
    /\ frame[1].ref.nGpus >= 3
    /\ ~ frame[1].res.ok
    /\ frame[1].res.count > 100000
    /\ frame[1].start < 100000 - 2
    /\ \E p \in PermArrays(frame[1].ref.nGpus) :
           describesUnder(frame[1].ref, extractTopology(config), p)


(***************************************************************************)
(* Channel doubling between the attempts of Phase 1                        *)
(***************************************************************************)
\* Whether a captured result can be doubled: intra speed of 25 GB/s or more
\* and fewer channels than maxChannels.
doublable(best) ==
    /\ best # NoResult
    /\ best[1].speedIntra >= 2500
    /\ best[1].nChannels < maxChannels

\* C28: whenever the best of Phase 1 has an intra speed of 25 or more and
\* fewer than maxChannels channels, the attempt made next is a re-run with
\* twice the best's channel count and sameChannels = 0, and its result
\* replaces the best only if its aggregate bandwidth (speed x channels) is
\* strictly greater than the best's.
DoubledRerunWhenBestIsFast ==
    [][(searching /\ frame[1].phase = "phase1" /\ doublable(frame[1].bestResult)) =>
           /\ frame'[1].last[1].sameChannels = 0
           /\ frame'[1].last[1].maxChannels = 2 * frame[1].bestResult[1].nChannels
           /\ frame'[1].bestResult # frame[1].bestResult =>
                  frame'[1].bestResult[1].speedIntra * frame'[1].bestResult[1].nChannels
                      > frame[1].bestResult[1].speedIntra * frame[1].bestResult[1].nChannels]_vars


(***************************************************************************)
(* sameChannels = 0 on AMD CPUs                                            *)
(***************************************************************************)
\* C29: on a system whose CPUs are x86 CPUs of AMD, no attempt is run with
\* sameChannels = 0 while the intra-node path type is SYS.
NoFreeOrderingsOnAmdAtSys ==
    (attempted /\ config.cpu.arch = CPUArch_X86 /\ config.cpu.vendor = CPUVendor_AMD
               /\ lastAttempt.typeIntra = PATH_SYS) =>
        lastAttempt.sameChannels # 0


(***************************************************************************)
(* The double binary tree                                                  *)
(***************************************************************************)
dtreeReturned == pc = "dtree" /\ frame[1].result # <<>>

hasChild(tree) == tree.down0 # -1 \/ tree.down1 # -1

\* C30: for every nRanks >= 2 and every rank r in 0..nRanks-1, r has at
\* least one child in tree0 or in tree1 of ncclGetDtree(nRanks, r): no rank
\* is a leaf in both trees.
NoRankIsLeafInBothTrees ==
    (dtreeReturned /\ frame[1].nRanks >= 2) =>
        hasChild(frame[1].result[1].tree0) \/ hasChild(frame[1].result[1].tree1)

=============================================================================
